---- MODULE Spec2Model ----
(***************************************************************************)
(* A model of the retrieval-augmentation pipeline of the RAG document      *)
(* assistant: query rewriting, hybrid retrieval with rank fusion,          *)
(* reranking, the two orchestrators and the lazily built keyword index.    *)
(*                                                                         *)
(* External services (the text generator, the vector search, the BM25      *)
(* library, the cross-encoder, the sentence model) are the environment:    *)
(* every call to one of them draws its outcome, a failure included, from a *)
(* small set.  Everything between those calls is translated from the code. *)
(***************************************************************************)
EXTENDS Integers, Sequences, FiniteSets, TLC

VARIABLES
    \* ---- rewrite_query applied to one input (src/query/rewriter.py)
    rw_pc, rw_query, rw_strategy, rw_num_variants, rw_use_llm, rw_llm_available,
    rw_resp, rw_result,
    \* ---- hybrid_search applied to one input (src/retrieval/hybrid.py)
    hy_pc, hy_top_k, hy_weights, hy_sem, hy_kw, hy_result,
    \* ---- rerank_chunks applied to one input (src/retrieval/reranker.py)
    rr_pc, rr_chunks, rr_top_k, rr_model, rr_result,
    \* ---- the keyword index globals and the threads using them
    \*      (src/retrieval/keyword_search.py)
    corpus, bm25_index, chunk_store, current_chunks_path, th,
    \* ---- one orchestrator run (src/orchestrator.py)
    pc, mode, query, opts, rewrite_result, queries_to_search, qi, all_chunk_lists,
    chunks, retrieval_meta, analysis, shape_result, tracer, calls, failures, result, llm_resp,
    \* ---- one call into the context shaper (src/context/shaper.py)
    sh_pc, sh_op, sh_chunks, sh_args, sh_out,
    \* ---- one PipelineTracer, its open span, the clock, the records handed
    \*      out and the last operation (src/evaluation/tracer.py)
    tr_tracer, tr_open, tr_now, tr_records, tr_last, tr_steps,
    \* ---- one call of hybrid_score_chunks or _merge_chunks on its own
    fu_pc, fu_op, fu_in, fu_out,
    \* ---- one call of a citation extractor on a generated text
    ci_pc, ci_op, ci_text, ci_out,
    \* ---- one run of iterative_retrieve_and_reason (src/reasoning/chain.py)
    it_pc, it_in, it_i, it_all_chunks, it_log, it_result,
    \* ---- one call of diagnose_failure (src/evaluation/diagnosis.py)
    dg_pc, dg_in, dg_out,
    \* ---- one call of the rule-based analyze_query on a query given by its
    \*      words (src/reasoning/analyzer.py)
    an_pc, an_in, an_out,
    \* ---- one chunk list on its way through the scoring stages: the stage
    \*      that ran last, the chunks it was given and the chunks it returned
    sc_pc, sc_top_k, sc_before, sc_chunks

rwVars == <<rw_pc, rw_query, rw_strategy, rw_num_variants, rw_use_llm,
            rw_llm_available, rw_resp, rw_result>>
hyVars == <<hy_pc, hy_top_k, hy_weights, hy_sem, hy_kw, hy_result>>
rrVars == <<rr_pc, rr_chunks, rr_top_k, rr_model, rr_result>>
ixVars == <<corpus, bm25_index, chunk_store, current_chunks_path, th>>
orVars == <<pc, mode, query, opts, rewrite_result, queries_to_search, qi,
            all_chunk_lists, chunks, retrieval_meta, analysis, shape_result, tracer,
            calls, failures, result, llm_resp>>
shVars == <<sh_pc, sh_op, sh_chunks, sh_args, sh_out>>
trVars == <<tr_tracer, tr_open, tr_now, tr_records, tr_last, tr_steps>>
fuVars == <<fu_pc, fu_op, fu_in, fu_out>>
ciVars == <<ci_pc, ci_op, ci_text, ci_out>>
itVars == <<it_pc, it_in, it_i, it_all_chunks, it_log, it_result>>
dgVars == <<dg_pc, dg_in, dg_out>>
anVars == <<an_pc, an_in, an_out>>
scVars == <<sc_pc, sc_top_k, sc_before, sc_chunks>>
vars == <<rwVars, hyVars, rrVars, ixVars, orVars, shVars, trVars, fuVars, ciVars, itVars, dgVars, anVars, scVars>>

(***************************************************************************)
(* Bounds of the model.                                                    *)
(***************************************************************************)
MaxLines == 3        \* lines in one generator response to a rewrite prompt
MaxVariants == 2     \* largest num_variants handed to rewrite_query
MaxChunks == 3       \* chunks one retrieval source returns
MaxTopK == 2         \* largest top_k
MaxRebuilds == 2     \* index rebuilds one thread starts
ShMaxChunks == 3     \* chunks handed to the context shaper
ShMaxBudget == 6     \* largest token_budget handed to the context shaper
ShMaxFloor == 2      \* largest min_tokens_per_chunk handed to budget_chunks
TrMaxSteps == 4      \* operations on one tracer
TrMaxTime == 2       \* ticks of time.time() during them
TrMaxRecords == 2    \* records obtained from one tracer
FuMaxListLen == 2    \* chunks in one per-query list handed to _merge_chunks
MaxCitations == 3    \* citations standing in one generated text
ItMaxIterations == 2 \* largest max_iterations of iterative_retrieve_and_reason
ItMaxChunks == 2     \* chunks in initial_chunks and in one follow-up retrieval
DgMaxWords == 3      \* words in a query handed to diagnose_failure
DgMaxChunks == 2     \* chunks handed to diagnose_failure
AnMaxWords == 4      \* words in a query handed to analyze_query
ScMaxChunks == 2     \* chunks one source returns to the scoring stages

(***************************************************************************)
(* Python helpers.                                                         *)
(***************************************************************************)
Min(a, b) == IF a <= b THEN a ELSE b
Max(a, b) == IF a >= b THEN a ELSE b

\* s[:n] of Python, n of either sign
PySliceTo(s, n) ==
    IF n >= 0 THEN SubSeq(s, 1, Min(n, Len(s)))
    ELSE SubSeq(s, 1, Max(Len(s) + n, 0))

InSeq(x, s) == \E i \in 1..Len(s) : s[i] = x

RECURSIVE SeqsUpTo(_, _)
\* all sequences over S of length at most n
SeqsUpTo(S, n) ==
    IF n = 0 THEN {<<>>}
    ELSE LET shorter == SeqsUpTo(S, n - 1)
         IN  shorter \cup {Append(s, x) : s \in {t \in shorter : Len(t) = n - 1}, x \in S}

NoDup(s) == \A i, j \in 1..Len(s) : i # j => s[i] # s[j]

\* The outcome of a call to an external service: it raised, or it returned val.
Raise == [ok |-> FALSE]
Ok(v) == [ok |-> TRUE, val |-> v]

(***************************************************************************)
(* Query rewriting: src/query/rewriter.py                                  *)
(***************************************************************************)
\* The query strings of the model.  str.strip() and the synonym table and
\* the complexity markers are evaluated on them as the code evaluates them.
PlainQuery == "what is x"
PaddedQuery == " what is x "
SynonymQuery == "fix login"
ComplexQuery == "compare a vs b"
EmptyQuery == ""
BlankQuery == "  "
StringQueries == {PlainQuery, PaddedQuery, SynonymQuery, ComplexQuery, EmptyQuery, BlankQuery}

\* query.strip()
Strip(q) ==
    CASE q = PaddedQuery -> PlainQuery
      [] q = BlankQuery -> EmptyQuery
      [] OTHER -> q

\* _expand_with_synonyms: "fix" and "login" are keys of SYNONYMS
SynonymExpansion == "fix login resolve troubleshoot repair solve sign-in authentication log in"
expand_with_synonyms(q) ==
    IF q = SynonymQuery THEN <<q, SynonymExpansion>> ELSE <<q>>

\* _is_complex_query: " vs " and "compare" are comparison markers
is_complex_query(q) == q = ComplexQuery

\* One line of a generator response, already stripped and non-empty: `text`
\* is what is left once a leading numbering artifact (`num`) is removed.
ShortText == "abc"
AltOne == "alternative one"
AltTwo == "alternative two"
LineTexts(q) == {q, AltOne, AltTwo, ShortText} \ {EmptyQuery}
Lines(q) == [num : BOOLEAN, text : LineTexts(q)]

\* len(cleaned) > 3
LongerThan3(t) == t \notin {ShortText, EmptyQuery, BlankQuery}

\* re.sub(r'^[\d\-\.\)\*]+\s*', '', line).strip()
Cleaned(line) == line.text

RECURSIVE FilterLines(_)
\* the loop of lines 162-167
FilterLines(ls) ==
    IF ls = <<>> THEN <<>>
    ELSE LET c == Cleaned(Head(ls))
         IN  IF LongerThan3(c) THEN <<c>> \o FilterLines(Tail(ls))
             ELSE FilterLines(Tail(ls))

\* queries[:num_variants + 1]
TruncateVariants(queries, num_variants) == PySliceTo(queries, num_variants + 1)

\* _rewrite_with_llm; resp is the outcome of call_llm, its value the lines of
\* the response text
rewrite_with_llm(q, num_variants, llm_available, resp) ==
    IF ~llm_available THEN <<q>>
    ELSE IF ~resp.ok THEN <<q>>
    ELSE LET found == FilterLines(resp.val)
             withOriginal == IF InSeq(q, found) THEN found ELSE <<q>> \o found
         IN  TruncateVariants(withOriginal, num_variants)

\* rewrite_query
rewrite_query(q0, num_variants, strategy0, use_llm, llm_available, resp) ==
    LET q == Strip(q0)
        strategy ==
            IF strategy0 = "auto"
            THEN IF is_complex_query(q) /\ use_llm /\ llm_available THEN "decompose"
                 ELSE IF use_llm /\ llm_available THEN "multi"
                 ELSE "expand"
            ELSE strategy0
    IN  IF q = EmptyQuery
        THEN [original_query |-> q, rewritten_queries |-> <<q>>, strategy_used |-> "none"]
        ELSE IF strategy = "expand"
        THEN [original_query |-> q, rewritten_queries |-> expand_with_synonyms(q),
              strategy_used |-> strategy]
        ELSE IF strategy \in {"multi", "decompose"} /\ use_llm /\ llm_available
        THEN [original_query |-> q,
              rewritten_queries |-> rewrite_with_llm(q, num_variants, llm_available, resp),
              strategy_used |-> strategy]
        ELSE [original_query |-> q, rewritten_queries |-> expand_with_synonyms(q),
              strategy_used |-> "expand"]

\* whether rewrite_query reaches the generator call of line 155
RewriteCallsLLM(q0, strategy0, use_llm, llm_available) ==
    /\ Strip(q0) # EmptyQuery
    /\ strategy0 \in {"auto", "multi", "decompose"}
    /\ use_llm /\ llm_available

Strategies == {"expand", "multi", "decompose", "auto"}
NoResult == [none |-> TRUE]

RwInit ==
    /\ rw_pc = "call"
    /\ rw_query \in StringQueries
    /\ rw_strategy \in Strategies
    /\ rw_num_variants \in 0..MaxVariants
    /\ rw_use_llm \in BOOLEAN
    /\ rw_llm_available \in BOOLEAN
    /\ rw_resp = NoResult
    /\ rw_result = NoResult

\* rewrite_query runs; the generator, when reached, answers or fails
RwCall ==
    /\ rw_pc = "call"
    /\ \E resp \in IF RewriteCallsLLM(rw_query, rw_strategy, rw_use_llm, rw_llm_available)
                   THEN {Raise} \cup {Ok(ls) : ls \in SeqsUpTo(Lines(Strip(rw_query)), MaxLines)}
                   ELSE {NoResult} :
          /\ rw_resp' = resp
          /\ rw_result' = rewrite_query(rw_query, rw_num_variants, rw_strategy,
                                        rw_use_llm, rw_llm_available, resp)
    /\ rw_pc' = "done"
    /\ UNCHANGED <<rw_query, rw_strategy, rw_num_variants, rw_use_llm, rw_llm_available>>

RwIdle ==
    /\ rw_pc = "idle" /\ rw_query = EmptyQuery /\ rw_strategy = "auto"
    /\ rw_num_variants = 0 /\ rw_use_llm = FALSE /\ rw_llm_available = FALSE
    /\ rw_resp = NoResult /\ rw_result = NoResult

(***************************************************************************)
(* Chunks and rank fusion: src/retrieval/keyword_search.py                 *)
(***************************************************************************)
ChunkIds == {"a", "b", "c", "d"}

\* what query_pinecone returns for a match
SemanticChunk(i) == [id |-> i, score |-> 8]
\* what keyword_search returns for a hit (lines 184-186)
KeywordChunk(i) == [id |-> i, score |-> 5, bm25_score |-> 5]

RECURSIVE InsertDescUnstable(_, _, _)
\* x placed in front of the elements of s whose key is equal
InsertDescUnstable(x, s, key) ==
    IF s = <<>> THEN <<x>>
    ELSE IF key[Head(s)] > key[x] THEN <<Head(s)>> \o InsertDescUnstable(x, Tail(s), key)
    ELSE <<x>> \o s

RECURSIVE InsertDesc(_, _, _)
\* x placed behind every element of s whose key is not smaller
InsertDesc(x, s, key) ==
    IF s = <<>> THEN <<x>>
    ELSE IF key[Head(s)] >= key[x] THEN <<Head(s)>> \o InsertDesc(x, Tail(s), key)
    ELSE <<x>> \o s

RECURSIVE SortedDesc(_, _)
\* sorted(s, key=lambda x: key[x], reverse=True): stable
SortedDesc(s, key) ==
    IF s = <<>> THEN <<>>
    ELSE InsertDesc(s[Len(s)], SortedDesc(SubSeq(s, 1, Len(s) - 1), key), key)

RECURSIVE FirstIds(_, _)
\* the non-empty ids of cs that are not in seen, in order of first occurrence
FirstIds(cs, seen) ==
    IF cs = <<>> THEN <<>>
    ELSE LET i == Head(cs).id
         IN  IF i = "" \/ i \in seen THEN FirstIds(Tail(cs), seen)
             ELSE <<i>> \o FirstIds(Tail(cs), seen \cup {i})

\* the first chunk of cs with id i
FirstChunk(cs, i) == cs[CHOOSE n \in 1..Len(cs) : cs[n].id = i /\ \A m \in 1..(n - 1) : cs[m].id # i]

RECURSIVE SumOver(_, _)
SumOver(f, S) ==
    IF S = {} THEN 0
    ELSE LET x == CHOOSE y \in S : TRUE IN f[x] + SumOver(f, S \ {x})

\* k = 60, the RRF constant
RRF_K == 60
\* 1.0 as an integer every 60 + rank + 1 with rank < 5 divides: scores are exact
RRFUnit == 61 * 31 * 63 * 64 * 65

\* the ranks counted from 1
RRFSumOneBased(cs, i, weight) ==
    LET at == {n \in 1..Len(cs) : cs[n].id = i}
        term == [n \in at |-> weight * (RRFUnit \div (RRF_K + n + 1))]
    IN  SumOver(term, at)

\* weight * (1.0 / (k + rank + 1)) summed over the ranks (0-based) where id i stands in cs
RRFSum(cs, i, weight) ==
    LET at == {n \in 1..Len(cs) : cs[n].id = i}
        term == [n \in at |-> weight * (RRFUnit \div (RRF_K + (n - 1) + 1))]
    IN  SumOver(term, at)

\* the search_sources list hybrid_score_chunks builds for id i
SearchSources(sem, kw, i) ==
    LET nSem == Cardinality({n \in 1..Len(sem) : sem[n].id = i})
        inKw == \E n \in 1..Len(kw) : kw[n].id = i
    IN  IF nSem = 0 THEN <<"keyword">>
        ELSE [n \in 1..nSem |-> "semantic"] \o (IF inKw THEN <<"keyword">> ELSE <<>>)

\* chunk_scores[chunk_id] = rrf, the sum forgotten
OverwriteScore(old, rrf) == IF rrf # 0 THEN rrf ELSE old
\* chunk_scores[chunk_id] = chunk_scores.get(chunk_id, 0) + rrf (lines 223, 236)
AccumulateScore(old, rrf) == old + rrf

\* hybrid_score_chunks; the weights are in tenths
hybrid_score_chunks(sem, kw, semantic_weight, keyword_weight, top_k) ==
    LET semIds == FirstIds(sem, {})
        ids == semIds \o FirstIds(kw, {semIds[n] : n \in 1..Len(semIds)})
        idSet == {ids[n] : n \in 1..Len(ids)}
        chunk_scores == [i \in idSet |->
                            AccumulateScore(RRFSum(sem, i, semantic_weight),
                                            RRFSum(kw, i, keyword_weight))]
        chunk_data == [i \in idSet |->
                            IF InSeq(i, semIds) THEN FirstChunk(sem, i) ELSE FirstChunk(kw, i)]
        sorted_ids == PySliceTo(SortedDesc(ids, chunk_scores), top_k)
    IN  [n \in 1..Len(sorted_ids) |->
            [hybrid_score |-> chunk_scores[sorted_ids[n]],
             search_sources |-> SearchSources(sem, kw, sorted_ids[n])]
            @@ chunk_data[sorted_ids[n]]]

(***************************************************************************)
(* Hybrid retrieval: src/retrieval/hybrid.py                               *)
(***************************************************************************)
\* what a source delivered: nothing when it raised (lines 54-69)
Delivered(outcome) == IF outcome.ok THEN outcome.val ELSE <<>>

\* lines 72-89 with the keyword-only branch falling into the hybrid one
HybridStrategyEitherSource(semantic_chunks, keyword_chunks) ==
    IF keyword_chunks # <<>> THEN "hybrid"
    ELSE IF semantic_chunks # <<>> THEN "semantic_only"
    ELSE "none"

\* the strategy label of lines 72-89
HybridStrategy(semantic_chunks, keyword_chunks) ==
    IF semantic_chunks # <<>> /\ keyword_chunks # <<>> THEN "hybrid"
    ELSE IF semantic_chunks # <<>> THEN "semantic_only"
    ELSE IF keyword_chunks # <<>> THEN "keyword_only"
    ELSE "none"

\* hybrid_search, given the outcomes of query_pinecone and keyword_search
hybrid_search(sem, kw, top_k, semantic_weight, keyword_weight) ==
    LET semantic_chunks == Delivered(sem)
        keyword_chunks == Delivered(kw)
        strategy == HybridStrategy(semantic_chunks, keyword_chunks)
        combined ==
            CASE strategy = "hybrid" ->
                    hybrid_score_chunks(semantic_chunks, keyword_chunks,
                                        semantic_weight, keyword_weight, top_k)
              [] strategy = "semantic_only" -> PySliceTo(semantic_chunks, top_k)
              [] strategy = "keyword_only" -> PySliceTo(keyword_chunks, top_k)
              [] OTHER -> <<>>
    IN  [chunks |-> combined,
         semantic_count |-> Len(semantic_chunks),
         keyword_count |-> Len(keyword_chunks),
         strategy |-> strategy]

\* the id lists a source can return: at most n ids of S, none twice
IdLists(S, n) == {s \in SeqsUpTo(S, n) : NoDup(s)}
SemanticLists(S, n) == {[k \in 1..Len(s) |-> SemanticChunk(s[k])] : s \in IdLists(S, n)}
KeywordLists(S, n) == {[k \in 1..Len(s) |-> KeywordChunk(s[k])] : s \in IdLists(S, n)}
\* what query_pinecone and keyword_search can do in one call
SemanticOutcomes(S, n) == {Raise} \cup {Ok(l) : l \in SemanticLists(S, n)}
KeywordOutcomes(S, n) == {Raise} \cup {Ok(l) : l \in KeywordLists(S, n)}

\* semantic_weight, keyword_weight in tenths: the defaults, and equal weights
WeightPairs == {<<7, 3>>, <<5, 5>>}

HyInit ==
    /\ hy_pc = "call"
    /\ hy_top_k \in 1..MaxTopK
    /\ hy_weights \in WeightPairs
    /\ hy_sem = NoResult
    /\ hy_kw = NoResult
    /\ hy_result = NoResult

\* hybrid_search runs: each source answers with at most fetch_k = 2 * top_k
\* chunks, or fails
HyCall ==
    /\ hy_pc = "call"
    /\ \E sem \in SemanticOutcomes(ChunkIds, Min(2 * hy_top_k, MaxChunks)),
          kw \in KeywordOutcomes(ChunkIds, Min(2 * hy_top_k, MaxChunks)) :
          /\ hy_sem' = sem
          /\ hy_kw' = kw
          /\ hy_result' = hybrid_search(sem, kw, hy_top_k, hy_weights[1], hy_weights[2])
    /\ hy_pc' = "done"
    /\ UNCHANGED <<hy_top_k, hy_weights>>

HyIdle ==
    /\ hy_pc = "idle" /\ hy_top_k = 1 /\ hy_weights = <<7, 3>>
    /\ hy_sem = NoResult /\ hy_kw = NoResult /\ hy_result = NoResult

(***************************************************************************)
(* Reranking: src/retrieval/reranker.py                                    *)
(***************************************************************************)
CrossEncoderName == "cross-encoder/ms-marco-MiniLM-L-6-v2"
\* the relevance scores model.predict can give a pair
RelevanceScores == {1, 2}

\* What the cross-encoder does in one call of rerank_chunks on n chunks:
\* _get_cross_encoder raises, predict raises, or predict scores every pair.
LoadFailed == [ok |-> FALSE, error |-> "Failed to load cross-encoder model"]
PredictFailed == [ok |-> FALSE, error |-> "predict failed"]
CrossEncoderOutcomes(n) == {LoadFailed, PredictFailed} \cup {Ok(sc) : sc \in [1..n -> RelevanceScores]}

\* lines 110-116 returning the last top_k chunks
RerankFallbackTail(cs, top_k, error) ==
    [chunks |-> SubSeq(cs, Max(1, Len(cs) - top_k + 1), Len(cs)),
     model_used |-> <<"fallback (error: ", error, ")">>,
     reranked |-> FALSE]

\* the except branch of lines 110-116
RerankFallback(cs, top_k, error) ==
    [chunks |-> PySliceTo(cs, top_k),
     model_used |-> <<"fallback (error: ", error, ")">>,
     reranked |-> FALSE]

\* lines 105-108 of rerank_chunks writing the relevance into score
RerankSortedIntoScore(cs, top_k, scores) ==
    LET order == PySliceTo(SortedDesc([n \in 1..Len(cs) |-> n], scores), top_k)
    IN  [chunks |-> [n \in 1..Len(order) |->
                        [score |-> scores[order[n]], rerank_score |-> scores[order[n]]]
                            @@ cs[order[n]]],
         model_used |-> <<CrossEncoderName>>,
         reranked |-> TRUE]

\* lines 93-108: sort by score, keep top_k, copy each chunk and add rerank_score
RerankSorted(cs, top_k, scores) ==
    LET order == PySliceTo(SortedDesc([n \in 1..Len(cs) |-> n], scores), top_k)
    IN  [chunks |-> [n \in 1..Len(order) |->
                        [rerank_score |-> scores[order[n]]] @@ cs[order[n]]],
         model_used |-> <<CrossEncoderName>>,
         reranked |-> TRUE]

\* rerank_chunks, given what the cross-encoder does
rerank_chunks(cs, top_k, model) ==
    IF cs = <<>> THEN [chunks |-> <<>>, model_used |-> <<"none">>, reranked |-> FALSE]
    ELSE IF Len(cs) <= 1 THEN [chunks |-> cs, model_used |-> <<"none">>, reranked |-> FALSE]
    ELSE IF ~model.ok THEN RerankFallback(cs, top_k, model.error)
    ELSE RerankSorted(cs, top_k, model.val)

\* whether rerank_chunks reaches the cross-encoder
RerankCallsModel(cs) == Len(cs) > 1

\* the chunk lists handed to the reranker: what retrieval produced
RerankInputs == SemanticLists(ChunkIds, MaxChunks + 1) \cup KeywordLists(ChunkIds, MaxChunks + 1)

RrInit ==
    /\ rr_pc = "call"
    /\ rr_chunks \in RerankInputs
    /\ rr_top_k \in 1..MaxTopK
    /\ rr_model = NoResult
    /\ rr_result = NoResult

\* rerank_chunks runs; the cross-encoder, when reached, scores or fails
RrCall ==
    /\ rr_pc = "call"
    /\ \E model \in IF RerankCallsModel(rr_chunks)
                    THEN CrossEncoderOutcomes(Len(rr_chunks))
                    ELSE {NoResult} :
          /\ rr_model' = model
          /\ rr_result' = rerank_chunks(rr_chunks, rr_top_k, model)
    /\ rr_pc' = "done"
    /\ UNCHANGED <<rr_chunks, rr_top_k>>

RrIdle ==
    /\ rr_pc = "idle" /\ rr_chunks = <<>> /\ rr_top_k = 1
    /\ rr_model = NoResult /\ rr_result = NoResult

(***************************************************************************)
(* The keyword index: src/retrieval/keyword_search.py                      *)
(*                                                                         *)
(* _bm25_index, _chunk_store and _current_chunks_path are module globals.  *)
(* Threads of one process (the sessions of app.py, the handlers of         *)
(* src/api/routes.py under a threaded server) call keyword_search and      *)
(* reload_index on them; a thread switch can fall between any two          *)
(* statements of get_bm25_index.  A corpus version is a number: the chunk  *)
(* store holds the version it was loaded from, the index the version of    *)
(* the store it was built from.                                            *)
(***************************************************************************)
Threads == {"t1", "t2"}
Paths == {"data/chunks.jsonl", "uploads/chunks.jsonl"}
\* None
NoVersion == 0
InitialCorpus == [p \in Paths |-> IF p = "data/chunks.jsonl" THEN 1 ELSE 2]
LastVersion == Cardinality(Paths) + MaxRebuilds
NewestVersion == CHOOSE v \in 1..LastVersion : (\E p \in Paths : corpus[p] = v) /\ (\A p \in Paths : corpus[p] <= v)

IdleThread == [pc |-> "idle", op |-> "none", path |-> "data/chunks.jsonl", force |-> FALSE,
               built |-> NoVersion, bm25 |-> NoVersion, chunks |-> NoVersion]

IxInit ==
    /\ corpus = InitialCorpus
    /\ bm25_index = NoVersion
    /\ chunk_store = NoVersion
    /\ current_chunks_path = "None"
    /\ th = [t \in Threads |-> IdleThread]

\* keyword_search(query, top_k, chunks_path) is called: line 163 enters get_bm25_index
KeywordSearchCall(t, p) ==
    /\ th[t].pc = "idle"
    /\ th' = [th EXCEPT ![t] = [IdleThread EXCEPT !.pc = "check", !.op = "search", !.path = p]]
    /\ UNCHANGED <<corpus, bm25_index, chunk_store, current_chunks_path>>

\* ingest (src/api/routes.py): ingest_from_directory writes a new corpus to
\* output_path, then reload_index(output_path) enters get_bm25_index with
\* force_rebuild=True
IngestReload(t, p) ==
    /\ th[t].pc = "idle"
    /\ NewestVersion < LastVersion
    /\ corpus' = [corpus EXCEPT ![p] = NewestVersion + 1]
    /\ th' = [th EXCEPT ![t] = [IdleThread EXCEPT !.pc = "check", !.op = "reload",
                                                  !.path = p, !.force = TRUE]]
    /\ UNCHANGED <<bm25_index, chunk_store, current_chunks_path>>

\* lines 93-94: whether get_bm25_index rebuilds
NeedsRebuild(path, force) ==
    \/ bm25_index = NoVersion
    \/ chunk_store = NoVersion
    \/ force
    \/ current_chunks_path # path

GetIndexCheck(t) ==
    /\ th[t].pc = "check"
    /\ th' = [th EXCEPT ![t].pc = IF NeedsRebuild(th[t].path, th[t].force) THEN "load" ELSE "return"]
    /\ UNCHANGED <<corpus, bm25_index, chunk_store, current_chunks_path>>

\* line 95: _chunk_store = _load_chunks(chunks_path)
GetIndexLoad(t) ==
    /\ th[t].pc = "load"
    /\ chunk_store' = corpus[th[t].path]
    /\ th' = [th EXCEPT ![t].pc = "set_path"]
    /\ UNCHANGED <<corpus, bm25_index, current_chunks_path>>

\* line 96: _current_chunks_path = chunks_path
GetIndexSetPath(t) ==
    /\ th[t].pc = "set_path"
    /\ current_chunks_path' = th[t].path
    /\ th' = [th EXCEPT ![t].pc = "build"]
    /\ UNCHANGED <<corpus, bm25_index, chunk_store>>

\* line 98, first half: _build_bm25_index(_chunk_store) reads the global and
\* tokenizes the corpus
GetIndexBuild(t) ==
    /\ th[t].pc = "build"
    /\ th' = [th EXCEPT ![t].built = chunk_store, ![t].pc = "publish"]
    /\ UNCHANGED <<corpus, bm25_index, chunk_store, current_chunks_path>>

\* line 98, second half: _bm25_index = <the index built>
GetIndexPublish(t) ==
    /\ th[t].pc = "publish"
    /\ bm25_index' = th[t].built
    /\ th' = [th EXCEPT ![t].pc = "return"]
    /\ UNCHANGED <<corpus, chunk_store, current_chunks_path>>

\* line 102: return _bm25_index, _chunk_store; reload_index ends here, and
\* so does a keyword_search that got no index or no chunks (lines 163-164)
GetIndexReturn(t) ==
    /\ th[t].pc = "return"
    /\ th' = [th EXCEPT ![t] = IF /\ th[t].op = "search"
                                  /\ bm25_index # NoVersion /\ chunk_store # NoVersion
                               THEN [th[t] EXCEPT !.pc = "score", !.bm25 = bm25_index,
                                                  !.chunks = chunk_store]
                               ELSE IdleThread]
    /\ UNCHANGED <<corpus, bm25_index, chunk_store, current_chunks_path>>

\* lines 165-189: keyword_search scores the query with bm25 and picks the
\* hits out of chunks by position
KeywordSearchScore(t) ==
    /\ th[t].pc = "score"
    /\ th' = [th EXCEPT ![t] = IdleThread]
    /\ UNCHANGED <<corpus, bm25_index, chunk_store, current_chunks_path>>

IxIdle ==
    /\ corpus = InitialCorpus /\ bm25_index = NoVersion /\ chunk_store = NoVersion
    /\ current_chunks_path = "None" /\ th = [t \in Threads |-> IdleThread]

(***************************************************************************)
(* The orchestrators: src/orchestrator.py                                  *)
(***************************************************************************)
\* values a caller can pass as the query that are not strings
NoneQuery == "<None>"
NumberQuery == "<42>"
OrchQueries == {NoneQuery, NumberQuery, EmptyQuery, PlainQuery, ComplexQuery}
\* isinstance(query, str)
IsStr(q) == q \in StringQueries
\* not query
Falsy(q) == q \in {NoneQuery, EmptyQuery}

\* the ids the semantic source returns to an orchestrator run, and the ones
\* the keyword source returns
OrchIds == {"a", "b"}
OrchKeywordIds == {"b"}
OrchMaxLines == 1    \* lines the generator answers to the rewrite prompt of a run
OrchMaxChunks == 1   \* chunks one retrieval source returns to a run
OrchMaxTopK == 2     \* largest top_k of a run
\* the lines the generator answers to the rewrite prompt of a run
OrchLines(q) == [num : {FALSE}, text : {q, AltOne} \ {EmptyQuery}]

\* _tokenize(query) is empty: keyword_search returns no chunks (line 171)
NoTokens(q) == q \in {EmptyQuery, BlankQuery}
OrchKeywordOutcomes(q, n) ==
    IF NoTokens(q) THEN {Raise, Ok(<<>>)} ELSE KeywordOutcomes(OrchKeywordIds, n)
\* keyword_search line 178 with a negative top_k: sorted(...)[:top_k] keeps
\* every index but the last -top_k, so the hits are as many as the store
\* gives; two rankings of four hits stand for them
ManyHits == {<<"a", "b", "c", "d">>, <<"c", "d", "a", "b">>}
OrchManyKeywordOutcomes(q) ==
    IF NoTokens(q) THEN {Raise, Ok(<<>>)}
    ELSE {Raise} \cup {Ok([k \in 1..Len(s) |-> KeywordChunk(s[k])]) : s \in ManyHits}

\* What the generator returns: the stripped text, and the citations standing
\* in it from left to right, each written [ID:x] or plain ID:x.
Bracketed(i) == [id |-> i, bracketed |-> TRUE]
Plain(i) == [id |-> i, bracketed |-> FALSE]
AnswerText == "an answer"
OfflineText == "[offline-llm] Answer based on provided context"
LLMTexts ==
    {[text |-> "", cited |-> <<>>]}
    \cup {[text |-> AnswerText, cited |-> c] : c \in {<<>>, <<Bracketed("a")>>, <<Plain("b"), Bracketed("a"), Plain("b")>>,
                <<Bracketed("zz")>>}}
\* str(e) of the exception a failing generator call raises
GeneratorDown == "generator call failed"
LLMFailed == [ok |-> FALSE, error |-> GeneratorDown]
\* f"llm_call_failed: {str(e)}"
LLMCallFailedTags == {"llm_call_failed: generator call failed"}
LLMCallFailed(error) == CHOOSE t \in LLMCallFailedTags : error = GeneratorDown
\* call_llm of the orchestrator: the provider wrapper when src.llm_providers
\* imports, else the local fallback of lines 118-134, which never raises
GenerationOutcomes(llm_available) ==
    IF llm_available THEN {LLMFailed} \cup {Ok(t) : t \in LLMTexts}
    ELSE {Ok([text |-> OfflineText, cited |-> <<>>])}

RECURSIVE Dedup(_, _)
\* lines 175-181: first occurrences, in order
Dedup(ids, seen) ==
    IF ids = <<>> THEN <<>>
    ELSE IF Head(ids) \in seen THEN Dedup(Tail(ids), seen)
    ELSE <<Head(ids)>> \o Dedup(Tail(ids), seen \cup {Head(ids)})

\* the ids of the citations of a text, as written
IdsOf(cited) == [n \in 1..Len(cited) |-> cited[n].id]
\* re.findall(r"\[ID:(...)\]", text): the bracketed citations, left to right
BracketedIds(cited) == IdsOf(SelectSeq(cited, LAMBDA c : c.bracketed))
\* re.findall(r"(?<!\[)ID:(...)", text): the citations with no [ in front
PlainIds(cited) == IdsOf(SelectSeq(cited, LAMBDA c : ~c.bracketed))

\* _extract_cited_ids_from_llm: the loop of lines 175-181 runs over
\* bracketed + plain
extract_cited_ids_from_llm(t) == Dedup(BracketedIds(t.cited) \o PlainIds(t.cited), {})

\* the orders in which list(set(ids)) can yield the members of a set of
\* strings: string hashes differ from one interpreter process to the next
ListOfSet(S) ==
    {l \in [1..Cardinality(S) -> S] : \A m, n \in 1..Cardinality(S) : m # n => l[m] # l[n]}
\* _extract_evidence_ids (src/reasoning/chain.py lines 105-110): every
\* citation matches r'\[?ID:(...)\]?'; the lists it can return
extract_evidence_ids(t) ==
    ListOfSet({t.cited[n].id : n \in 1..Len(t.cited)})

\* _merge_chunks keeping every occurrence of a chunk instead of the first one
MergeChunksEveryOccurrence(chunk_lists, top_k) ==
    LET RECURSIVE Cat(_)
        Cat(n) == IF n = 0 THEN <<>> ELSE Cat(n - 1) \o chunk_lists[n]
        flat == PySliceTo(Cat(Len(chunk_lists)), top_k)
    IN  [n \in 1..Len(flat) |-> [rrf_score |-> RRFSum(flat, flat[n].id, 1)] @@ flat[n]]

\* _merge_chunks: unweighted RRF over the per-query result lists
merge_chunks(chunk_lists, top_k) ==
    LET flat == IF chunk_lists = <<>> THEN <<>>
                ELSE LET RECURSIVE Cat(_)
                         Cat(n) == IF n = 0 THEN <<>> ELSE Cat(n - 1) \o chunk_lists[n]
                     IN  Cat(Len(chunk_lists))
        ids == FirstIds(flat, {})
        idSet == {ids[n] : n \in 1..Len(ids)}
        listScore(i) == [l \in 1..Len(chunk_lists) |-> RRFSum(chunk_lists[l], i, 1)]
        chunk_scores == [i \in idSet |-> SumOver(listScore(i), 1..Len(chunk_lists))]
        sorted_ids == PySliceTo(SortedDesc(ids, chunk_scores), top_k)
    IN  [n \in 1..Len(sorted_ids) |->
            [rrf_score |-> chunk_scores[sorted_ids[n]]] @@ FirstChunk(flat, sorted_ids[n])]

\* top_k after lines 279-280
DefaultTopK == 3
EffectiveTopK(k) == IF k <= 0 THEN DefaultTopK ELSE k

\* the early returns of orchestrate_query (lines 269, 333, 342, 364)
SimpleError(error) ==
    [answer |-> "", sources |-> <<>>, citations |-> <<>>, llm_meta |-> [error |-> error]]

\* lines 367-378
BuildSources(cs) == [n \in 1..Len(cs) |-> [id |-> cs[n].id, score |-> cs[n].score]]

\* lines 381-387 without the fallback of lines 388-389
BuildCitationsNoFallback(sources, cited_ids) ==
    LET hit == SelectSeq(cited_ids, LAMBDA i : \E n \in 1..Len(sources) : sources[n].id = i)
    IN  [n \in 1..Len(hit) |-> sources[CHOOSE m \in 1..Len(sources) : sources[m].id = hit[n]]]

\* lines 381-389
BuildCitations(sources, cited_ids) ==
    LET hit == SelectSeq(cited_ids, LAMBDA i : \E n \in 1..Len(sources) : sources[n].id = i)
        cited == [n \in 1..Len(hit) |->
                    sources[CHOOSE m \in 1..Len(sources) :
                                /\ sources[m].id = hit[n]
                                /\ \A m2 \in (m + 1)..Len(sources) : sources[m2].id # hit[n]]]
    IN  IF cited = <<>> THEN sources ELSE cited

SimpleOpts ==
    [top_k : 0..OrchMaxTopK, rewrite_strategy : {"auto", "expand", "none"},
     use_hybrid : BOOLEAN, use_reranking : BOOLEAN, llm_available : BOOLEAN]
\* orchestrate_advanced takes top_k as it is given: -1 stands for the negative ones
AdvancedOpts ==
    [top_k : {-1} \cup 1..OrchMaxTopK, enable_reasoning : BOOLEAN, enable_tracing : BOOLEAN,
     llm_available : BOOLEAN]

NoTracer == [on |-> FALSE]

OrInit ==
    /\ pc = "start"
    /\ \/ mode = "simple" /\ opts \in SimpleOpts
       \/ mode = "advanced" /\ opts \in AdvancedOpts
    /\ query \in OrchQueries
    /\ rewrite_result = NoResult
    /\ queries_to_search = <<>>
    /\ qi = 1
    /\ all_chunk_lists = <<>>
    /\ chunks = <<>>
    /\ retrieval_meta = NoResult
    /\ analysis = NoResult
    /\ shape_result = NoResult
    /\ tracer = NoTracer
    /\ calls = {}
    /\ failures = {}
    /\ result = NoResult
    /\ llm_resp = NoResult

\* line 268 with the `not query` test left out
InvalidQueryNonStringOnly(q) == ~IsStr(q)

\* line 268: not query or not isinstance(query, str)
InvalidQuery(q) == Falsy(q) \/ ~IsStr(q)

\* orchestrate_query, lines 268-286: validation and defaults
SimpleStart ==
    /\ pc = "start" /\ mode = "simple"
    /\ IF InvalidQuery(query)
       THEN /\ result' = SimpleError("invalid_query")
            /\ pc' = "done"
            /\ UNCHANGED retrieval_meta
       ELSE /\ retrieval_meta' = [hybrid_enabled |-> opts.use_hybrid,
                                  reranking_enabled |-> opts.use_reranking]
            /\ pc' = "rewrite"
            /\ UNCHANGED result
    /\ UNCHANGED <<mode, query, opts, llm_resp, rewrite_result, queries_to_search, qi,
                   all_chunk_lists, chunks, analysis, shape_result, tracer, calls, failures>>

\* the generator's answers to the rewrite prompt
RewriteOutcomes(q, strategy, use_llm, llm_available) ==
    IF RewriteCallsLLM(q, strategy, use_llm, llm_available)
    THEN {Raise} \cup {Ok(ls) : ls \in SeqsUpTo(OrchLines(Strip(q)), OrchMaxLines)}
    ELSE {NoResult}

\* orchestrate_query, lines 288-302: query rewriting
SimpleRewrite ==
    /\ pc = "rewrite" /\ mode = "simple"
    /\ IF opts.rewrite_strategy # "none"
       THEN \E resp \in RewriteOutcomes(query, opts.rewrite_strategy,
                                        opts.rewrite_strategy # "expand", opts.llm_available) :
               LET r == rewrite_query(query, 3, opts.rewrite_strategy,
                                      opts.rewrite_strategy # "expand",
                                      opts.llm_available, resp)
               IN  /\ rewrite_result' = r
                   /\ queries_to_search' = r.rewritten_queries
                   /\ calls' = calls \cup {"rewrite"}
                   /\ failures' = IF resp = Raise THEN failures \cup {"rewrite"} ELSE failures
       ELSE /\ queries_to_search' = <<query>>
            /\ UNCHANGED <<rewrite_result, calls, failures>>
    /\ qi' = 1
    /\ pc' = "retrieve"
    /\ UNCHANGED <<mode, query, opts, llm_resp, all_chunk_lists, chunks, retrieval_meta, analysis,
                   shape_result, tracer, result>>

\* orchestrate_query, lines 307-330: one turn of the retrieval loop
SimpleRetrieve ==
    /\ pc = "retrieve" /\ mode = "simple" /\ qi <= Len(queries_to_search)
    /\ LET q == queries_to_search[qi]
           top_k == EffectiveTopK(opts.top_k)
       IN  IF opts.use_hybrid
           THEN \E sem \in SemanticOutcomes(OrchIds, OrchMaxChunks),
                   kw \in OrchKeywordOutcomes(q, OrchMaxChunks) :
                   LET fetch_k == IF opts.use_reranking THEN top_k * 3 ELSE top_k * 2
                       r == hybrid_search(sem, kw, fetch_k, 7, 3)
                   IN  /\ IF r.chunks # <<>>
                          THEN /\ all_chunk_lists' = Append(all_chunk_lists, r.chunks)
                               /\ retrieval_meta' =
                                    [hybrid_strategy |-> r.strategy,
                                     semantic_count |-> r.semantic_count,
                                     keyword_count |-> r.keyword_count] @@ retrieval_meta
                          ELSE UNCHANGED <<all_chunk_lists, retrieval_meta>>
                       /\ failures' = IF ~sem.ok \/ ~kw.ok
                                      THEN failures \cup {"retrieval"} ELSE failures
           ELSE \E sem \in SemanticOutcomes(OrchIds,
                               Min(OrchMaxChunks, IF opts.use_reranking THEN top_k * 2 ELSE top_k)) :
                   /\ IF sem.ok /\ sem.val # <<>>
                      THEN all_chunk_lists' = Append(all_chunk_lists, sem.val)
                      ELSE UNCHANGED all_chunk_lists
                   /\ failures' = IF ~sem.ok THEN failures \cup {"retrieval"} ELSE failures
                   /\ UNCHANGED retrieval_meta
    /\ calls' = calls \cup {"retrieval"}
    /\ qi' = qi + 1
    /\ pc' = IF qi = Len(queries_to_search) THEN "merge" ELSE "retrieve"
    /\ UNCHANGED <<mode, query, opts, llm_resp, rewrite_result, queries_to_search, chunks, analysis,
                   shape_result, tracer, result>>

\* orchestrate_query, lines 332-342: merge, or give up without chunks
SimpleMerge ==
    /\ pc = "merge" /\ mode = "simple"
    /\ LET top_k == EffectiveTopK(opts.top_k)
           merged == IF Len(all_chunk_lists) = 1 THEN all_chunk_lists[1]
                     ELSE merge_chunks(all_chunk_lists,
                                       IF opts.use_reranking THEN top_k * 2 ELSE top_k)
       IN  IF all_chunk_lists = <<>>
           THEN /\ result' = SimpleError("retrieval_failed")
                /\ pc' = "done"
                /\ UNCHANGED chunks
           ELSE IF merged = <<>>
           THEN /\ result' = SimpleError("no_retrieval_results")
                /\ pc' = "done"
                /\ UNCHANGED chunks
           ELSE /\ chunks' = merged
                /\ pc' = "rerank"
                /\ UNCHANGED result
    /\ UNCHANGED <<mode, query, opts, llm_resp, rewrite_result, queries_to_search, qi, all_chunk_lists,
                   retrieval_meta, analysis, shape_result, tracer, calls, failures>>

\* orchestrate_query, lines 344-355: reranking
SimpleRerank ==
    /\ pc = "rerank" /\ mode = "simple"
    /\ LET top_k == EffectiveTopK(opts.top_k)
       IN  IF opts.use_reranking /\ Len(chunks) > 1
           THEN \E model \in CrossEncoderOutcomes(Len(chunks)) :
                   LET r == rerank_chunks(chunks, top_k, model)
                   IN  /\ chunks' = r.chunks
                       /\ retrieval_meta' = [rerank_model |-> r.model_used,
                                             reranked |-> r.reranked] @@ retrieval_meta
                       /\ calls' = calls \cup {"rerank"}
                       /\ failures' = IF ~model.ok THEN failures \cup {"rerank"} ELSE failures
           ELSE /\ chunks' = PySliceTo(chunks, top_k)
                /\ UNCHANGED <<retrieval_meta, calls, failures>>
    /\ pc' = "generate"
    /\ UNCHANGED <<mode, query, opts, llm_resp, rewrite_result, queries_to_search, qi, all_chunk_lists,
                   analysis, shape_result, tracer, result>>

\* the result of lines 392-403
SimpleResult(text, cs) ==
    LET sources == BuildSources(cs)
    IN  [answer |-> text.text,
         sources |-> sources,
         citations |-> BuildCitations(sources, extract_cited_ids_from_llm(text)),
         llm_meta |-> [provider |-> "llm"],
         query_rewrite |-> IF rewrite_result = NoResult THEN NoResult
                           ELSE [original |-> query, rewritten |-> queries_to_search,
                                 strategy |-> rewrite_result.strategy_used],
         retrieval_meta |-> retrieval_meta]

\* how orchestrate_query ends when call_llm raised (lines 363-364)
SimpleGenerationFailed(error) == SimpleError(LLMCallFailed(error))

\* orchestrate_query, lines 357-412: prompt, generation, sources and citations
SimpleGenerate ==
    /\ pc = "generate" /\ mode = "simple"
    /\ \E llm \in GenerationOutcomes(opts.llm_available) :
          /\ llm_resp' = llm
          /\ result' = IF llm.ok THEN SimpleResult(llm.val, chunks)
                       ELSE SimpleGenerationFailed(llm.error)
          /\ failures' = IF ~llm.ok THEN failures \cup {"generation"} ELSE failures
    /\ calls' = calls \cup {"generation"}
    /\ pc' = "done"
    /\ UNCHANGED <<mode, query, opts, rewrite_result, queries_to_search, qi, all_chunk_lists,
                   chunks, retrieval_meta, analysis, shape_result, tracer>>

(***************************************************************************)
(* The tracer as orchestrate_advanced uses it: src/evaluation/tracer.py    *)
(***************************************************************************)
\* PipelineTracer.__init__
NewTracer == [on |-> TRUE, stages |-> <<>>, success |-> TRUE, error |-> "None"]

\* _StageContext.__exit__ of the span `name`; error is "None" on a normal exit
TraceExit(tr, name, error) ==
    IF ~tr.on THEN tr
    ELSE [tr EXCEPT !.stages = Append(@, [name |-> name, error |-> error]),
                    !.success = IF error # "None" THEN FALSE ELSE @,
                    !.error = IF error # "None" THEN error ELSE @]

\* PipelineTracer.set_error
SetError(tr, error) == [tr EXCEPT !.success = FALSE, !.error = error]

\* PipelineTracer.to_dict
ToDict(tr) == [stages |-> tr.stages, success |-> tr.success, error |-> tr.error]

(***************************************************************************)
(* Query analysis and reasoning, as far as orchestrate_advanced needs      *)
(* them: src/reasoning/analyzer.py, src/reasoning/chain.py                 *)
(***************************************************************************)
\* str(e) of the AttributeError query.lower() raises on a non-string
NotAString == "object has no attribute 'lower'"

\* _classify_query on the queries of the model: "compare" and "vs" are
\* comparative patterns, no pattern matches the others
classify_query(q) == IF q = ComplexQuery THEN "comparative" ELSE "factual"

\* analyze_query(query, use_llm=False)
analyze_query(q) ==
    LET query_type == classify_query(q)
    IN  [query_type |-> query_type,
         sub_queries |-> IF q = ComplexQuery THEN <<q, "a", "b">> ELSE <<q>>,
         reasoning_required |-> query_type \in {"comparative", "analytical"}]

NoEvidenceAnswer == "I don't have enough information to answer this question."
LLMUnavailableAnswer == "LLM not available for reasoning."
\* f"Error during reasoning: {str(e)[:100]}"
ReasoningErrorAnswer == "Error during reasoning: generator call failed"

\* reason_over_evidence, given what its generator call does
reason_over_evidence(cs, query_type, llm_available, llm, evidence_ids) ==
    IF cs = <<>>
    THEN [answer |-> NoEvidenceAnswer, evidence_used |-> <<>>, confidence |-> 0,
          reasoning_type |-> "no_evidence"]
    ELSE IF ~llm_available
    THEN [answer |-> LLMUnavailableAnswer, evidence_used |-> <<>>, confidence |-> 0,
          reasoning_type |-> "error"]
    ELSE IF ~llm.ok
    THEN [answer |-> ReasoningErrorAnswer, evidence_used |-> <<>>, confidence |-> 0,
          reasoning_type |-> "error"]
    ELSE LET ids == evidence_ids
         IN  [answer |-> llm.val.text, evidence_used |-> ids,
              confidence |-> Min(9, 3 + Len(ids)),
              reasoning_type |-> IF query_type \in {"comparative", "analytical"}
                                 THEN query_type ELSE "synthesis"]

\* what _extract_evidence_ids can return at line 171, when it is reached
EvidenceIdsOf(llm) ==
    IF llm # NoResult /\ llm.ok THEN extract_evidence_ids(llm.val) ELSE {<<>>}

\* the generator call of reason_over_evidence (line 166), when it is reached
ReasoningOutcomes(cs, llm_available) ==
    IF cs # <<>> /\ llm_available THEN {LLMFailed} \cup {Ok(t) : t \in LLMTexts}
    ELSE {NoResult}

(***************************************************************************)
(* Context shaping as orchestrate_advanced sees it: src/context/shaper.py  *)
(*                                                                         *)
(* shape_context keeps the first chunk and any of the later ones           *)
(* (deduplication and the budget drop chunks, never reorder them), or it   *)
(* raises: _get_sentence_model catches ImportError alone, so any other     *)
(* failure to load the sentence model leaves _compute_similarity and       *)
(* shape_context as an exception.                                          *)
(***************************************************************************)
SentenceModelDown == "sentence model failed to load"
ShapeFailed == [ok |-> FALSE, error |-> SentenceModelDown]

\* the subsequences of cs that keep its first element
KeptChunks(cs) ==
    IF cs = <<>> THEN {<<>>}
    ELSE {SelectSeq(cs, LAMBDA c : c \in keep \/ c = cs[1]) :
            keep \in SUBSET {cs[n] : n \in 1..Len(cs)}}

ShapeOutcomes(cs) ==
    (IF cs = <<>> THEN {} ELSE {ShapeFailed})
    \cup {Ok([chunks |-> k, chunks_removed |-> Len(cs) - Len(k),
              compression_applied |-> FALSE]) : k \in KeptChunks(cs)}

(***************************************************************************)
(* orchestrate_advanced: src/orchestrator.py, lines 415-643                *)
(***************************************************************************)
NoChunksRetrieved == "No chunks retrieved"

\* the except clause of lines 635-643, for an exception e that left the
\* span `stage`
AdvancedExcept(tr, stage, e) ==
    IF tr.on
    THEN [answer |-> "", error |-> e,
          trace |-> ToDict(SetError(TraceExit(tr, stage, e), e))]
    ELSE [raised |-> e]

\* lines 448-469: defaults, tracer, query analysis
AdvancedAnalysis ==
    /\ pc = "start" /\ mode = "advanced"
    /\ LET tr == IF opts.enable_tracing THEN NewTracer ELSE NoTracer
       IN  IF IsStr(query)
           THEN /\ analysis' = analyze_query(query)
                /\ tracer' = TraceExit(tr, "query_analysis", "None")
                /\ pc' = "rewrite"
                /\ UNCHANGED <<result, failures>>
           ELSE /\ result' = AdvancedExcept(tr, "query_analysis", NotAString)
                /\ tracer' = tr
                /\ failures' = failures \cup {"analysis"}
                /\ pc' = "done"
                /\ UNCHANGED analysis
    /\ calls' = calls \cup {"analysis"}
    /\ UNCHANGED <<mode, query, opts, llm_resp, rewrite_result, queries_to_search, qi, all_chunk_lists,
                   chunks, retrieval_meta, shape_result>>

\* lines 471-486: query rewriting
AdvancedRewrite ==
    /\ pc = "rewrite" /\ mode = "advanced"
    /\ \E resp \in RewriteOutcomes(query, "auto", TRUE, opts.llm_available) :
          LET r == rewrite_query(query, 3, "auto", TRUE, opts.llm_available, resp)
          IN  /\ rewrite_result' = r
              /\ queries_to_search' = r.rewritten_queries
              /\ failures' = IF resp = Raise THEN failures \cup {"rewrite"} ELSE failures
    /\ tracer' = TraceExit(tracer, "query_rewrite", "None")
    /\ calls' = calls \cup {"rewrite"}
    /\ qi' = 1
    /\ pc' = "retrieve"
    /\ UNCHANGED <<mode, query, opts, llm_resp, all_chunk_lists, chunks, retrieval_meta, analysis,
                   shape_result, result>>

\* lines 488-502: one turn of the retrieval loop; asked for a negative number
\* of matches the vector index gives none, while keyword_search gives many
AdvancedRetrieve ==
    /\ pc = "retrieve" /\ mode = "advanced" /\ qi <= Len(queries_to_search)
    /\ \E sem \in IF opts.top_k < 0 THEN {Raise, Ok(<<>>)}
                  ELSE SemanticOutcomes(OrchIds, OrchMaxChunks),
          kw \in IF opts.top_k < 0 THEN OrchManyKeywordOutcomes(queries_to_search[qi])
                 ELSE OrchKeywordOutcomes(queries_to_search[qi], OrchMaxChunks) :
          \* all_chunks.extend(result.chunks): all_chunk_lists holds all_chunks
          /\ all_chunk_lists' =
                all_chunk_lists \o hybrid_search(sem, kw, opts.top_k * 2, 7, 3).chunks
          /\ failures' = IF ~sem.ok \/ ~kw.ok THEN failures \cup {"retrieval"} ELSE failures
    /\ calls' = calls \cup {"retrieval"}
    /\ qi' = qi + 1
    /\ IF qi = Len(queries_to_search)
       THEN /\ tracer' = TraceExit(tracer, "retrieval", "None")
            /\ pc' = "collect"
       ELSE /\ pc' = "retrieve"
            /\ UNCHANGED tracer
    /\ UNCHANGED <<mode, query, opts, llm_resp, rewrite_result, queries_to_search, chunks,
                   retrieval_meta, analysis, shape_result, result>>

RECURSIVE UniqueById(_, _)
\* lines 508-514
UniqueById(cs, seen) ==
    IF cs = <<>> THEN <<>>
    ELSE IF Head(cs).id # "" /\ Head(cs).id \notin seen
    THEN <<Head(cs)>> \o UniqueById(Tail(cs), seen \cup {Head(cs).id})
    ELSE UniqueById(Tail(cs), seen)

\* line 504 never true
NoChunksIgnored(cs) == FALSE

\* line 504: not all_chunks
NoChunks(cs) == cs = <<>>

\* lines 504-514: give up without chunks, else deduplicate across queries
AdvancedCollect ==
    /\ pc = "collect" /\ mode = "advanced"
    /\ IF NoChunks(all_chunk_lists)
       THEN /\ result' = [answer |-> "", error |-> NoChunksRetrieved]
            /\ pc' = "done"
            /\ UNCHANGED chunks
       ELSE /\ chunks' = UniqueById(all_chunk_lists, {})
            /\ pc' = "rerank"
            /\ UNCHANGED result
    /\ UNCHANGED <<mode, query, opts, llm_resp, rewrite_result, queries_to_search, qi, all_chunk_lists,
                   retrieval_meta, analysis, shape_result, tracer, calls, failures>>

\* lines 516-528: reranking
AdvancedRerank ==
    /\ pc = "rerank" /\ mode = "advanced"
    /\ \E model \in IF RerankCallsModel(chunks) THEN CrossEncoderOutcomes(Len(chunks))
                    ELSE {NoResult} :
          /\ chunks' = rerank_chunks(chunks, opts.top_k * 2, model).chunks
          /\ failures' = IF model \in {LoadFailed, PredictFailed}
                         THEN failures \cup {"rerank"} ELSE failures
    /\ tracer' = TraceExit(tracer, "reranking", "None")
    /\ calls' = calls \cup {"rerank"}
    /\ pc' = "shape"
    /\ UNCHANGED <<mode, query, opts, llm_resp, rewrite_result, queries_to_search, qi, all_chunk_lists,
                   retrieval_meta, analysis, shape_result, result>>

\* lines 530-553: context shaping
AdvancedShape ==
    /\ pc = "shape" /\ mode = "advanced"
    /\ \E shaped \in ShapeOutcomes(chunks) :
          IF shaped.ok
          THEN /\ shape_result' = shaped.val
               /\ chunks' = PySliceTo(shaped.val.chunks, opts.top_k)
               /\ tracer' = TraceExit(tracer, "context_shaping", "None")
               /\ pc' = "answer"
               /\ UNCHANGED <<result, failures>>
          ELSE /\ result' = AdvancedExcept(tracer, "context_shaping", shaped.error)
               /\ failures' = failures \cup {"shape"}
               /\ pc' = "done"
               /\ UNCHANGED <<shape_result, chunks, tracer>>
    /\ calls' = calls \cup {"shape"}
    /\ UNCHANGED <<mode, query, opts, llm_resp, rewrite_result, queries_to_search, qi, all_chunk_lists,
                   retrieval_meta, analysis>>

\* the result of lines 601-633
AdvancedResult(answer, reasoning, tr) ==
    LET base == [answer |-> answer,
                 sources |-> BuildSources(chunks),
                 query_analysis |-> [type |-> analysis.query_type,
                                     sub_queries |-> analysis.sub_queries,
                                     reasoning_required |-> analysis.reasoning_required],
                 context_shaping |-> [compression_applied |-> shape_result.compression_applied]]
        withReasoning == IF reasoning = NoResult THEN base
                         ELSE [reasoning |-> reasoning] @@ base
    IN  IF tr.on THEN [trace |-> ToDict(tr)] @@ withReasoning ELSE withReasoning

\* lines 556-582 and 601-633: the reasoning branch
AdvancedReason ==
    /\ pc = "answer" /\ mode = "advanced"
    /\ opts.enable_reasoning /\ analysis.reasoning_required
    /\ \E llm \in ReasoningOutcomes(chunks, opts.llm_available) : \E evidence_ids \in EvidenceIdsOf(llm) :
          LET r == reason_over_evidence(chunks, analysis.query_type, opts.llm_available, llm,
                                        evidence_ids)
              tr == TraceExit(tracer, "reasoning", "None")
          IN  /\ tracer' = tr
              /\ result' = AdvancedResult(r.answer,
                                          [evidence_used |-> r.evidence_used,
                                           confidence |-> r.confidence,
                                           type |-> r.reasoning_type], tr)
              /\ failures' = IF llm = LLMFailed THEN failures \cup {"reasoning"} ELSE failures
    /\ calls' = calls \cup {"reasoning"}
    /\ pc' = "done"
    /\ UNCHANGED <<mode, query, opts, llm_resp, rewrite_result, queries_to_search, qi, all_chunk_lists,
                   chunks, retrieval_meta, analysis, shape_result>>

\* lines 583-599 and 601-633: standard generation
AdvancedGenerate ==
    /\ pc = "answer" /\ mode = "advanced"
    /\ ~(opts.enable_reasoning /\ analysis.reasoning_required)
    /\ \E llm \in GenerationOutcomes(opts.llm_available) :
          IF llm.ok
          THEN LET tr == TraceExit(tracer, "generation", "None")
               IN  /\ tracer' = tr
                   /\ result' = AdvancedResult(llm.val.text, NoResult, tr)
                   /\ UNCHANGED failures
          ELSE /\ result' = AdvancedExcept(tracer, "generation", llm.error)
               /\ failures' = failures \cup {"generation"}
               /\ UNCHANGED tracer
    /\ calls' = calls \cup {"generation"}
    /\ pc' = "done"
    /\ UNCHANGED <<mode, query, opts, llm_resp, rewrite_result, queries_to_search, qi, all_chunk_lists,
                   chunks, retrieval_meta, analysis, shape_result>>

OrIdle ==
    /\ pc = "idle" /\ mode = "simple" /\ query = EmptyQuery /\ opts = NoResult
    /\ rewrite_result = NoResult /\ queries_to_search = <<>> /\ qi = 1
    /\ all_chunk_lists = <<>> /\ chunks = <<>> /\ retrieval_meta = NoResult
    /\ analysis = NoResult /\ shape_result = NoResult /\ tracer = NoTracer
    /\ calls = {} /\ failures = {} /\ result = NoResult /\ llm_resp = NoResult

(***************************************************************************)
(* Context shaping: src/context/shaper.py                                  *)
(*                                                                         *)
(* A text is its length in characters and the index of its one space (the  *)
(* gap between its two sentences), 0 when it has none.  The chunks of the  *)
(* model: "a" has two sentences of 19 and 20 characters, "b" one of 8,     *)
(* "c" has an empty text and score 0.                                      *)
(***************************************************************************)
Text(n, sp) == [len |-> n, sp |-> sp]
ShapeChunk(i) ==
    CASE i = "a" -> [id |-> "a", score |-> 8, text |-> Text(40, 19)]
      [] i = "b" -> [id |-> "b", score |-> 5, text |-> Text(8, 0)]
      [] OTHER -> [id |-> "c", score |-> 0, text |-> Text(0, 0)]
ShapeIds == {"a", "b", "c"}
ShapeInputs(n) == {[k \in 1..Len(s) |-> ShapeChunk(s[k])] : s \in SeqsUpTo(ShapeIds, n)}

\* _estimate_tokens
estimate_tokens(t) == t.len \div 4

\* int(x) of the quotient a / b, b > 0: truncation towards zero
TruncDiv(a, b) == IF a >= 0 THEN a \div b ELSE -((-a) \div b)

\* The sentence model: loaded, not installed (ImportError, every similarity
\* is 0.0), or failing to load with another error (the call raises).
SentenceModels == {"ok", "missing", "broken"}
\* cosine similarities in hundredths, one per unordered pair of chunk ids
SimLevels == {50, 85}
SimTables == [{<<"a", "b">>, <<"a", "c">>, <<"b", "c">>} -> SimLevels]
\* _compute_similarity on the texts of two chunks
compute_similarity(model, sim, x, y) ==
    IF model = "missing" THEN 0
    ELSE IF x = y THEN 100
    ELSE IF <<x, y>> \in DOMAIN sim THEN sim[<<x, y>>] ELSE sim[<<y, x>>]

RECURSIVE DedupFromPrevious(_, _, _, _, _, _)
\* the loop of lines 91-106 comparing each chunk with the one before it in
\* the input instead of the chunks kept
DedupFromPrevious(cs, i, kept, threshold, model, sim) ==
    IF i > Len(cs) THEN kept
    ELSE LET is_duplicate ==
                 i > 1 /\ compute_similarity(model, sim, cs[i].id, cs[i - 1].id) >= threshold
         IN  DedupFromPrevious(cs, i + 1, IF is_duplicate THEN kept ELSE Append(kept, cs[i]),
                               threshold, model, sim)

RECURSIVE DedupFrom(_, _, _, _, _, _)
\* the loop of lines 91-106 from index i on, kept the chunks kept so far
DedupFrom(cs, i, kept, threshold, model, sim) ==
    IF i > Len(cs) THEN kept
    ELSE LET is_duplicate ==
                 \E j \in 1..Len(kept) :
                    compute_similarity(model, sim, cs[i].id, kept[j].id) >= threshold
         IN  DedupFrom(cs, i + 1, IF is_duplicate THEN kept ELSE Append(kept, cs[i]),
                       threshold, model, sim)

\* deduplicate_chunks handing every chunk back twice
DeduplicateDoubling(cs, threshold, model, sim) == [chunks |-> cs \o cs, removed |-> 0]

\* deduplicate_chunks
deduplicate_chunks(cs, threshold, model, sim) ==
    IF Len(cs) <= 1 THEN [chunks |-> cs, removed |-> 0]
    ELSE LET kept == DedupFrom(cs, 1, <<>>, threshold, model, sim)
         IN  [chunks |-> kept, removed |-> Len(cs) - Len(kept)]

\* deduplicate_chunks reaches the sentence model
DedupCallsModel(cs) == Len(cs) > 1

\* _split_sentences gives more than one sentence
MultiSentence(t) == t.sp > 0
\* which sentences of a two-sentence text are similar enough to the query
Relevances == {"both", "first", "second", "neither"}

\* prune_irrelevant_sentences
prune_irrelevant_sentences(c, model, rel) ==
    IF c.text.len = 0 \/ ~MultiSentence(c.text) THEN c
    ELSE LET r == IF model = "missing" THEN "neither" ELSE rel
             first == c.text.sp
             second == c.text.len - c.text.sp - 1
         IN  CASE r = "both" -> [sentences_pruned |-> 0] @@ c
               [] r = "second" ->
                    [sentences_pruned |-> 1] @@ [c EXCEPT !.text = Text(second, 0)]
               [] OTHER ->
                    [sentences_pruned |-> 1] @@ [c EXCEPT !.text = Text(first, 0)]

\* prune_irrelevant_sentences reaches the sentence model
PruneCallsModel(cs) == \E n \in 1..Len(cs) : MultiSentence(cs[n].text)

\* line 152 leaving the text as it is
TruncatedNot(t, char_limit) == t

\* line 152 with an ellipsis of four characters
TruncatedLongEllipsis(t, char_limit) ==
    IF t.sp > 0 /\ t.sp < char_limit THEN Text(t.sp + 4, 0)
    ELSE Text(Min(t.len, Max(char_limit, 0)) + 4, 0)

\* text[:char_limit].rsplit(" ", 1)[0] + "..."
Truncated(t, char_limit) ==
    IF t.sp > 0 /\ t.sp < char_limit THEN Text(t.sp + 3, 0)
    ELSE Text(Min(t.len, Max(char_limit, 0)) + 3, 0)

RECURSIVE SumScores(_)
SumScores(cs) == IF cs = <<>> THEN 0 ELSE Head(cs).score + SumScores(Tail(cs))

RECURSIVE BudgetFrom(_, _, _, _, _, _)
\* the loop of lines 137-164 from index i on; remaining is remaining_budget
BudgetFrom(cs, i, remaining, total_score, token_budget, min_tokens) ==
    IF i > Len(cs) THEN <<>>
    ELSE LET share == TruncDiv(cs[i].score * token_budget, total_score)
             chunk_budget == Min(Max(share, min_tokens), remaining)
             text == IF estimate_tokens(cs[i].text) > chunk_budget
                     THEN Truncated(cs[i].text, chunk_budget * 4)
                     ELSE cs[i].text
             left == remaining - estimate_tokens(text)
         IN  IF chunk_budget <= 0
             THEN BudgetFrom(cs, i + 1, remaining, total_score, token_budget, min_tokens)
             ELSE <<[budget_allocated |-> chunk_budget, remaining_before |-> remaining]
                        @@ [cs[i] EXCEPT !.text = text]>>
                  \o (IF left <= 0 THEN <<>>
                      ELSE BudgetFrom(cs, i + 1, left, total_score, token_budget, min_tokens))

\* budget_chunks without line 143: no floor under the proportional share
BudgetChunksNoFloor(cs, token_budget, min_tokens) ==
    IF cs = <<>> THEN <<>>
    ELSE LET total == SumScores(cs)
         IN  BudgetFrom(cs, 1, token_budget, IF total = 0 THEN Len(cs) ELSE total,
                        token_budget, 0)

\* budget_chunks; each returned chunk also remembers, as remaining_before,
\* the remaining_budget its allocation was capped with
budget_chunks(cs, token_budget, min_tokens) ==
    IF cs = <<>> THEN <<>>
    ELSE LET total == SumScores(cs)
         IN  BudgetFrom(cs, 1, token_budget, IF total = 0 THEN Len(cs) ELSE total,
                        token_budget, min_tokens)

\* min_tokens_per_chunk when the caller gives none (line 114)
DefaultFloor == 50

RECURSIVE SumTokens(_)
\* sum(_estimate_tokens(c.get("text", "")) for c in chunks)
SumTokens(cs) == IF cs = <<>> THEN 0 ELSE estimate_tokens(Head(cs).text) + SumTokens(Tail(cs))

RECURSIVE SumLens(_)
SumLens(cs) == IF cs = <<>> THEN 0 ELSE Head(cs).text.len + SumLens(Tail(cs))
\* "\n\n".join(c.get("text", "") for c in chunks)
Combined(cs) == Text(SumLens(cs) + 2 * Max(Len(cs) - 1, 0), 0)

\* the score of the first chunk in place of the maximum
FirstScore(cs) == cs[1].score

RECURSIVE MaxScore(_)
\* max(c.get("score", 0) for c in chunks)
MaxScore(cs) == IF Len(cs) = 1 THEN cs[1].score ELSE Max(Head(cs).score, MaxScore(Tail(cs)))

\* the summaries the generator writes
Summaries == {Text(0, 0), Text(8, 0)}
SummaryOutcomes == {Raise} \cup {Ok(t) : t \in Summaries}

\* compress_with_llm; llm_available is whether src.llm_providers imports
compress_with_llm(cs, target_tokens, llm_available, llm) ==
    IF ~llm_available THEN cs
    ELSE IF estimate_tokens(Combined(cs)) <= target_tokens THEN cs
    ELSE IF ~llm.ok THEN cs
    ELSE IF cs = <<>> THEN cs   \* max() of no scores raises inside the try
    ELSE <<[id |-> "compressed_context", text |-> llm.val, score |-> MaxScore(cs),
            compressed_from |-> Len(cs)]>>

\* shape_context with the default dedup_threshold; the result, or the
\* exception the sentence model raised
shape_context(cs, token_budget, enable_pruning, enable_compression, model, sim, rel, llm_available, llm) ==
    IF cs = <<>>
    THEN Ok([chunks |-> <<>>, original_tokens |-> 0, final_tokens |-> 0,
             chunks_removed |-> 0, compression_applied |-> FALSE,
             budgeted_tokens |-> 0, first_kept |-> ""])
    ELSE IF model = "broken" /\ (DedupCallsModel(cs) \/ (enable_pruning /\ PruneCallsModel(cs)))
    THEN ShapeFailed
    ELSE LET d == deduplicate_chunks(cs, 85, model, sim)
             pruned == IF enable_pruning
                       THEN [n \in 1..Len(d.chunks) |->
                                prune_irrelevant_sentences(d.chunks[n], model, rel)]
                       ELSE d.chunks
             budgeted == budget_chunks(pruned, token_budget, DefaultFloor)
             \* current_tokens > token_budget * 1.2
             compress == enable_compression /\ 10 * SumTokens(budgeted) > 12 * token_budget
             final == IF compress
                      THEN compress_with_llm(budgeted, token_budget, llm_available, llm)
                      ELSE budgeted
         IN  Ok([chunks |-> final, original_tokens |-> SumTokens(cs),
                 final_tokens |-> SumTokens(final), chunks_removed |-> d.removed,
                 compression_applied |-> compress,
                 \* not fields of ContextShapeResult: current_tokens of line 318
                 \* and the id of deduped[0]
                 budgeted_tokens |-> SumTokens(budgeted),
                 first_kept |-> d.chunks[1].id])

ShapeArgs ==
    [token_budget : (-1)..ShMaxBudget, enable_pruning : BOOLEAN, enable_compression : BOOLEAN]
DedupArgs == [threshold : {85, 90}]
BudgetArgs == [token_budget : (-1)..ShMaxBudget, min_tokens_per_chunk : 0..ShMaxFloor]
CompressArgs == [target_tokens : (-1)..ShMaxBudget]

ShInit ==
    /\ sh_pc = "call"
    /\ sh_chunks \in ShapeInputs(ShMaxChunks)
    /\ \/ sh_op = "shape" /\ sh_args \in ShapeArgs
       \/ sh_op = "dedup" /\ sh_args \in DedupArgs
       \/ sh_op = "budget" /\ sh_args \in BudgetArgs
       \/ sh_op = "compress" /\ sh_args \in CompressArgs
    /\ sh_out = NoResult

\* shape_context runs, whatever the sentence model and the generator do
ShapeCall ==
    /\ sh_pc = "call" /\ sh_op = "shape"
    /\ \E model \in SentenceModels, sim \in SimTables, rel \in Relevances,
          llm_available \in BOOLEAN, llm \in SummaryOutcomes :
          sh_out' = shape_context(sh_chunks, sh_args.token_budget, sh_args.enable_pruning,
                                  sh_args.enable_compression, model, sim, rel,
                                  llm_available, llm)
    /\ sh_pc' = "done"
    /\ UNCHANGED <<sh_op, sh_chunks, sh_args>>

\* deduplicate_chunks runs, then runs again on its own output with the same
\* threshold and the same similarities
DedupCall ==
    /\ sh_pc = "call" /\ sh_op = "dedup"
    /\ \E model \in {"ok", "missing"}, sim \in SimTables :
          LET first == deduplicate_chunks(sh_chunks, sh_args.threshold, model, sim)
          IN  sh_out' = [first |-> first,
                         again |-> deduplicate_chunks(first.chunks, sh_args.threshold,
                                                      model, sim)]
    /\ sh_pc' = "done"
    /\ UNCHANGED <<sh_op, sh_chunks, sh_args>>

\* budget_chunks runs
BudgetCall ==
    /\ sh_pc = "call" /\ sh_op = "budget"
    /\ sh_out' = [chunks |-> budget_chunks(sh_chunks, sh_args.token_budget,
                                           sh_args.min_tokens_per_chunk)]
    /\ sh_pc' = "done"
    /\ UNCHANGED <<sh_op, sh_chunks, sh_args>>

\* compress_with_llm runs, whatever the generator does
CompressCall ==
    /\ sh_pc = "call" /\ sh_op = "compress"
    /\ \E llm_available \in BOOLEAN, llm \in SummaryOutcomes :
          sh_out' = [chunks |-> compress_with_llm(sh_chunks, sh_args.target_tokens,
                                                  llm_available, llm),
                     llm_available |-> llm_available, llm |-> llm]
    /\ sh_pc' = "done"
    /\ UNCHANGED <<sh_op, sh_chunks, sh_args>>

ShIdle ==
    /\ sh_pc = "idle" /\ sh_op = "none" /\ sh_chunks = <<>>
    /\ sh_args = NoResult /\ sh_out = NoResult

(***************************************************************************)
(* The tracer on its own: src/evaluation/tracer.py                         *)
(*                                                                         *)
(* None is NoResult.  An error text is its length; time.time() is tr_now,  *)
(* which never runs backwards.  A record obtained with get_result holds    *)
(* the tracer's own stages dict (line 110 passes self.stages), so what it  *)
(* shows is whatever that dict holds now; to_dict builds a new dict.       *)
(***************************************************************************)
\* str(exc_val)[:200]
ErrorLimit == 200
Message(n) == [text |-> "error", len |-> n]
Messages == {Message(0), Message(4), Message(ErrorLimit + 50)}
MaybeMessages == {NoResult} \cup Messages
\* the error argument of record_stage: None, "" or a text; of set_error: a text
RecordedErrors == {NoResult, Message(0), Message(4)}
SetErrors == {Message(4)}
\* bool(x) of None or a string
Truthy(m) == m # NoResult /\ m.len > 0
Truncate200(m) == [m EXCEPT !.len = Min(@, ErrorLimit)]

StageNames == {"retrieval", "generation"}
Answers == {"an answer"}

\* PipelineTracer.__init__ (lines 55-63)
TracerInit == [stages |-> <<>>, success |-> TRUE, error |-> NoResult, final_answer |-> ""]

\* self.stages[name] = stage: stages is a function from the names recorded
PutStage(stages, name, stage) ==
    [n \in (DOMAIN stages) \cup {name} |-> IF n = name THEN stage ELSE stages[n]]
NoStages == [n \in {} |-> NoResult]

TrInit ==
    /\ tr_tracer = [TracerInit EXCEPT !.stages = NoStages]
    /\ tr_open = NoResult
    /\ tr_now = 0
    /\ tr_records = <<>>
    /\ tr_last = NoResult
    /\ tr_steps = 0

\* time.time() read by an operation: the clock may have moved on
Tick(now) == {t \in {now, now + 1} : t <= TrMaxTime}
TrStep == tr_steps < TrMaxSteps /\ tr_steps' = tr_steps + 1

\* trace_stage(name) and _StageContext.__enter__ (lines 65-67, 148-153)
TrEnter(name) ==
    /\ TrStep /\ tr_open = NoResult
    /\ \E t \in Tick(tr_now) :
          /\ tr_now' = t
          /\ tr_open' = [name |-> name, start_time |-> t, end_time |-> 0, error |-> NoResult]
    /\ tr_last' = [op |-> "enter", name |-> name]
    /\ UNCHANGED <<tr_tracer, tr_records>>

\* the stage and the tracer fields __exit__ leaves (lines 155-163)
StageAtExit(stage, t, exc_val) ==
    [stage EXCEPT !.end_time = t,
                  !.error = IF exc_val # NoResult THEN Truncate200(exc_val) ELSE @]
TracerAtExitOnReturnOnly(tr, stage, exc_val) ==
    IF exc_val # NoResult THEN tr
    ELSE [tr EXCEPT !.stages = PutStage(@, stage.name, stage)]
TracerAtExit(tr, stage, exc_val) ==
    [tr EXCEPT !.stages = PutStage(@, stage.name, stage),
               !.success = IF exc_val # NoResult THEN FALSE ELSE @,
               !.error = IF exc_val # NoResult THEN Truncate200(exc_val) ELSE @]

\* _StageContext.__exit__: the traced block returned (exc_val is None) or
\* raised exc_val; __exit__ returns False, so the exception goes on
TrExit(exc_val) ==
    /\ TrStep /\ tr_open # NoResult
    /\ \E t \in Tick(tr_now) :
          /\ tr_now' = t
          /\ tr_tracer' = TracerAtExit(tr_tracer, StageAtExit(tr_open, t, exc_val), exc_val)
    /\ tr_open' = NoResult
    /\ tr_last' = [op |-> "exit", name |-> tr_open.name, exc_val |-> exc_val,
                   start_time |-> tr_open.start_time,
                   propagated |-> exc_val # NoResult]
    /\ UNCHANGED tr_records

\* record_stage (lines 69-91); latency_ms / 1000 is 0 or 1 tick
TrRecordStage(name, latency, error) ==
    /\ TrStep
    /\ \E t \in Tick(tr_now) :
          /\ tr_now' = t
          /\ tr_tracer' =
                [tr_tracer EXCEPT
                    !.stages = PutStage(@, name, [name |-> name, start_time |-> t - latency,
                                                  end_time |-> t, error |-> error]),
                    !.success = IF Truthy(error) THEN FALSE ELSE @,
                    !.error = IF Truthy(error) THEN error ELSE @]
    /\ tr_last' = [op |-> "record_stage", name |-> name]
    /\ UNCHANGED <<tr_open, tr_records>>

\* set_answer (lines 93-95)
TrSetAnswer(answer) ==
    /\ TrStep
    /\ tr_tracer' = [tr_tracer EXCEPT !.final_answer = answer]
    /\ tr_last' = [op |-> "set_answer"]
    /\ UNCHANGED <<tr_open, tr_now, tr_records>>

\* set_error (lines 97-100)
TrSetError(error) ==
    /\ TrStep
    /\ tr_tracer' = [tr_tracer EXCEPT !.success = FALSE, !.error = error]
    /\ tr_last' = [op |-> "set_error"]
    /\ UNCHANGED <<tr_open, tr_now, tr_records>>

\* the stages dict to_dict builds (lines 124-133)
StagesDict(stages) ==
    [n \in DOMAIN stages |-> [latency |-> stages[n].end_time - stages[n].start_time,
                              error |-> stages[n].error]]

\* get_result (lines 102-115): the record holds self.stages itself.  `made`
\* remembers what the record showed when it was handed out.
TrGetResult ==
    /\ TrStep /\ Len(tr_records) < TrMaxRecords
    /\ tr_records' = Append(tr_records,
                            [kind |-> "get_result", shares_stages |-> TRUE,
                             success |-> tr_tracer.success, error |-> tr_tracer.error,
                             made |-> tr_tracer.stages])
    /\ tr_last' = [op |-> "get_result"]
    /\ UNCHANGED <<tr_tracer, tr_open, tr_now>>

\* to_dict (lines 117-137)
TrToDict ==
    /\ TrStep /\ Len(tr_records) < TrMaxRecords
    /\ tr_records' = Append(tr_records,
                            [kind |-> "to_dict", shares_stages |-> FALSE,
                             stages |-> StagesDict(tr_tracer.stages),
                             success |-> tr_tracer.success, error |-> tr_tracer.error,
                             made |-> StagesDict(tr_tracer.stages)])
    /\ tr_last' = [op |-> "to_dict"]
    /\ UNCHANGED <<tr_tracer, tr_open, tr_now>>

\* the stages a record shows now
StagesShown(r) == IF r.shares_stages THEN tr_tracer.stages ELSE r.stages

TrIdle ==
    /\ tr_tracer = NoResult /\ tr_open = NoResult /\ tr_now = 0
    /\ tr_records = <<>> /\ tr_last = NoResult /\ tr_steps = 0

(***************************************************************************)
(* Fusion on its own: hybrid_score_chunks (src/retrieval/keyword_search.py)*)
(* and _merge_chunks (src/orchestrator.py), called on result lists         *)
(***************************************************************************)
\* ids of the chunks in the lists; "" is a chunk without an id
FuIds == {"", "a", "b", "c"}
MergeIds == {"a", "b", "c"}
\* semantic_weight, keyword_weight in tenths, within the documented 0-1
FusionWeights == {<<7, 3>>, <<5, 5>>, <<0, 10>>, <<10, 10>>}
FuTopKs == 1..(MaxTopK + 1)
FuseInputs ==
    [sem : SemanticLists(FuIds, MaxChunks), kw : KeywordLists(FuIds, MaxChunks),
     weights : FusionWeights, top_k : FuTopKs]
\* the per-query lists _merge_chunks is handed (orchestrator.py line 336)
MergeListsOf(n) == [1..n -> SemanticLists(MergeIds, FuMaxListLen)]
MergeInputs ==
    [chunk_lists : UNION {MergeListsOf(n) : n \in 1..MaxVariants}, top_k : FuTopKs]

FuInit ==
    /\ fu_pc = "call"
    /\ fu_op \in {"fuse", "merge"}
    /\ fu_in \in (IF fu_op = "fuse" THEN FuseInputs ELSE MergeInputs)
    /\ fu_out = NoResult

\* one call of hybrid_score_chunks
FuseCall ==
    /\ fu_pc = "call" /\ fu_op = "fuse"
    /\ fu_out' = hybrid_score_chunks(fu_in.sem, fu_in.kw, fu_in.weights[1],
                                     fu_in.weights[2], fu_in.top_k)
    /\ fu_pc' = "done"
    /\ UNCHANGED <<fu_op, fu_in>>

\* one call of _merge_chunks
MergeCall ==
    /\ fu_pc = "call" /\ fu_op = "merge"
    /\ fu_out' = merge_chunks(fu_in.chunk_lists, fu_in.top_k)
    /\ fu_pc' = "done"
    /\ UNCHANGED <<fu_op, fu_in>>

FuIdle == fu_pc = "idle" /\ fu_op = "none" /\ fu_in = NoResult /\ fu_out = NoResult

(***************************************************************************)
(* Citation extraction on its own: _extract_cited_ids_from_llm             *)
(* (src/orchestrator.py) and _extract_evidence_ids (src/reasoning/chain.py)*)
(***************************************************************************)
CitedIds == {"a", "b"}
Citations == {Bracketed(i) : i \in CitedIds} \cup {Plain(i) : i \in CitedIds}
\* the generated texts: up to MaxCitations citations in any mix
CitedTexts == {[text |-> AnswerText, cited |-> c] : c \in SeqsUpTo(Citations, MaxCitations)}

CiInit ==
    /\ ci_pc = "call"
    /\ ci_op \in {"orchestrator", "chain"}
    /\ ci_text \in CitedTexts
    /\ ci_out = NoResult

\* _extract_cited_ids_from_llm(text)
ExtractCitedCall ==
    /\ ci_pc = "call" /\ ci_op = "orchestrator"
    /\ ci_out' = extract_cited_ids_from_llm(ci_text)
    /\ ci_pc' = "done"
    /\ UNCHANGED <<ci_op, ci_text>>

\* _extract_evidence_ids(text)
ExtractEvidenceCall ==
    /\ ci_pc = "call" /\ ci_op = "chain"
    /\ ci_out' \in extract_evidence_ids(ci_text)
    /\ ci_pc' = "done"
    /\ UNCHANGED <<ci_op, ci_text>>

CiIdle == ci_pc = "idle" /\ ci_op = "none" /\ ci_text = NoResult /\ ci_out = NoResult

(***************************************************************************)
(* Iterative retrieval: iterative_retrieve_and_reason                      *)
(* (src/reasoning/chain.py lines 194-252)                                  *)
(*                                                                         *)
(* The generator and retrieve_fn are the environment.  it_log keeps what   *)
(* each sufficiency check answered and what each follow-up retrieval did.  *)
(***************************************************************************)
\* what call_llm does at line 234: it raises, or answers with a text that
\* holds SUFFICIENT, a follow-up query of more than 5 characters, or less
CheckOutcomes == {"check_raised", "sufficient", "follow_up", "no_follow_up"}
ItInitialChunks == SemanticLists({"a", "b"}, ItMaxChunks)
\* what retrieve_fn(follow_up) does: it raises or returns chunks, which may
\* repeat ids
ItRetrieved == {[k \in 1..Len(l) |-> SemanticChunk(l[k])] : l \in SeqsUpTo({"a", "c"}, ItMaxChunks)}
ItRetrieveOutcomes == {Raise} \cup {Ok(l) : l \in ItRetrieved}

\* lines 244-247: the chunks of new_chunks whose id is not yet in chunk_ids
RECURSIVE AddNewChunks(_, _)
AddNewChunks(all_chunks, new_chunks) ==
    IF new_chunks = <<>> THEN all_chunks
    ELSE IF \E n \in 1..Len(all_chunks) : all_chunks[n].id = Head(new_chunks).id
    THEN AddNewChunks(all_chunks, Tail(new_chunks))
    ELSE AddNewChunks(Append(all_chunks, Head(new_chunks)), Tail(new_chunks))

ItInit ==
    /\ it_pc = "start"
    /\ it_in \in [initial_chunks : ItInitialChunks, max_iterations : 0..ItMaxIterations,
                  llm_available : BOOLEAN]
    /\ it_i = 0
    /\ it_all_chunks = <<>>
    /\ it_log = <<>>
    /\ it_result = NoResult

\* where the for loop of line 220 goes with its counter at i
LoopHead(i) == IF i < it_in.max_iterations THEN "check" ELSE "reason"

\* lines 212-218
ItStart ==
    /\ it_pc = "start"
    /\ it_all_chunks' = it_in.initial_chunks
    /\ it_pc' = IF it_in.llm_available THEN LoopHead(0) ELSE "reason"
    /\ UNCHANGED <<it_in, it_i, it_log, it_result>>

\* lines 221-242: one sufficiency check
ItCheck ==
    /\ it_pc = "check"
    /\ \E answer \in CheckOutcomes :
          /\ it_log' = Append(it_log, answer)
          /\ CASE answer = "check_raised" ->
                    /\ it_result' = [raised |-> GeneratorDown]
                    /\ it_pc' = "done"
                    /\ UNCHANGED it_i
               [] answer = "sufficient" ->
                    /\ it_pc' = "reason"
                    /\ UNCHANGED <<it_i, it_result>>
               [] answer = "follow_up" ->
                    /\ it_pc' = "retrieve"
                    /\ UNCHANGED <<it_i, it_result>>
               [] OTHER ->
                    /\ it_i' = it_i + 1
                    /\ it_pc' = LoopHead(it_i + 1)
                    /\ UNCHANGED it_result
    /\ UNCHANGED <<it_in, it_all_chunks>>

\* lines 242-250: the follow-up retrieval
ItRetrieve ==
    /\ it_pc = "retrieve"
    /\ \E new_chunks \in ItRetrieveOutcomes :
          IF new_chunks.ok
          THEN LET grown == AddNewChunks(it_all_chunks, new_chunks.val)
               IN  /\ it_all_chunks' = grown
                   /\ it_log' = Append(it_log, IF grown = it_all_chunks THEN "nothing_new"
                                               ELSE "new")
                   /\ it_i' = it_i + 1
                   /\ it_pc' = LoopHead(it_i + 1)
          ELSE /\ it_log' = Append(it_log, "retrieve_raised")
               /\ it_pc' = "reason"
               /\ UNCHANGED <<it_all_chunks, it_i>>
    /\ UNCHANGED <<it_in, it_result>>

\* lines 218 and 252: return reason_over_evidence(query, all_chunks)
ItReason ==
    /\ it_pc = "reason"
    /\ \E llm \in ReasoningOutcomes(it_all_chunks, it_in.llm_available) :
       \E evidence_ids \in EvidenceIdsOf(llm) :
          it_result' = reason_over_evidence(it_all_chunks, "factual", it_in.llm_available,
                                            llm, evidence_ids)
    /\ it_pc' = "done"
    /\ UNCHANGED <<it_in, it_i, it_all_chunks, it_log>>

ItIdle ==
    /\ it_pc = "idle" /\ it_in = NoResult /\ it_i = 0 /\ it_all_chunks = <<>>
    /\ it_log = <<>> /\ it_result = NoResult

(***************************************************************************)
(* Failure diagnosis: src/evaluation/diagnosis.py                          *)
(*                                                                         *)
(* Texts are lower-cased and split by the code; a text is modelled by its  *)
(* words: a query is a sequence of words, a chunk text, an answer and the  *)
(* expected content are sets of words.  Scores and confidences are in      *)
(* tenths.                                                                 *)
(***************************************************************************)
DgWords == {"what", "api", "rate", "limits"}
\* the question words line 179 strips
QuestionWords == {"what", "how", "why", "when", "where", "who", "which"}
WordLen(w) == CASE w = "api" -> 3 [] w = "limits" -> 6 [] OTHER -> 4

\* lines 178-181: cleaned.replace(word + " ", ""): a question word goes when
\* a blank follows it, so not at the end of the query
StripQuestionWords(q) ==
    SelectSeq([n \in 1..Len(q) |-> IF q[n] \in QuestionWords /\ n < Len(q) THEN "" ELSE q[n]],
              LAMBDA w : w # "")

\* _generate_alternative_queries: each alternative is the sequence of its words
generate_alternative_queries(q) ==
    LET words == SelectSeq(StripQuestionWords(q), LAMBDA w : WordLen(w) > 3)
        alternatives ==
            IF words = <<>> THEN <<>>
            ELSE <<PySliceTo(words, 5)>>
                 \o (IF Len(words) >= 2 THEN <<<<"about", words[1], words[2]>>>> ELSE <<>>)
    IN  PySliceTo(alternatives, 3)

RECURSIVE DgSumScores(_)
DgSumScores(cs) == IF cs = <<>> THEN 0 ELSE Head(cs).score + DgSumScores(Tail(cs))
\* set(" ".join(c.get("text", "") for c in chunks).lower().split())
ChunkWords(cs) == UNION {cs[n].words : n \in 1..Len(cs)}
SetOf(q) == {q[n] : n \in 1..Len(q)}

DiagnosisResult(root_cause, stage_failed, confidence, alternative_queries) ==
    [root_cause |-> root_cause, stage_failed |-> stage_failed, confidence |-> confidence,
     alternative_queries |-> alternative_queries]

\* diagnose_failure with the abstention test ahead of the relevance test
DiagnoseAbstentionFirst(q, cs, answer, expected_content) ==
    IF cs = <<>>
    THEN DiagnosisResult("retrieval_failure", "retrieval", 9, generate_alternative_queries(q))
    ELSE IF answer.abstains
    THEN IF 2 * Cardinality(SetOf(q) \cap ChunkWords(cs)) > Cardinality(SetOf(q))
         THEN DiagnosisResult("context_interpretation", "generation", 7, <<>>)
         ELSE DiagnosisResult("topic_mismatch", "retrieval", 8,
                              generate_alternative_queries(q))
    ELSE IF DgSumScores(cs) < 4 * Len(cs)
    THEN DiagnosisResult("low_relevance", "retrieval", 8, generate_alternative_queries(q))
    ELSE DiagnosisResult("unknown", "unknown", 5, generate_alternative_queries(q))

\* diagnose_failure (lines 22-170)
diagnose_failure(q, cs, answer, expected_content) ==
    IF cs = <<>>
    THEN DiagnosisResult("retrieval_failure", "retrieval", 9, generate_alternative_queries(q))
    \* avg_score < 0.4
    ELSE IF DgSumScores(cs) < 4 * Len(cs)
    THEN DiagnosisResult("low_relevance", "retrieval", 8, generate_alternative_queries(q))
    ELSE IF answer.abstains
    THEN LET query_words == SetOf(q)
             hits == Cardinality(query_words \cap ChunkWords(cs))
         IN  \* overlap > 0.5, overlap being 0 for a q without words
             IF query_words # {} /\ 2 * hits > Cardinality(query_words)
             THEN DiagnosisResult("context_interpretation", "generation", 7, <<>>)
             ELSE DiagnosisResult("topic_mismatch", "retrieval", 8,
                                  generate_alternative_queries(q))
    ELSE IF expected_content # NoResult /\ expected_content.words # {}
            \* coverage < 0.3
            /\ 10 * Cardinality(expected_content.words \cap answer.words)
                  < 3 * Cardinality(expected_content.words)
    THEN IF expected_content.words \cap ChunkWords(cs) # {}
         THEN DiagnosisResult("generation_miss", "generation", 7, <<>>)
         ELSE DiagnosisResult("retrieval_miss", "retrieval", 8,
                              generate_alternative_queries(q))
    ELSE DiagnosisResult("unknown", "unknown", 5, generate_alternative_queries(q))

\* the chunks: a score, and the words of the text
DgChunks ==
    {[score |-> 2, words |-> {"rate"}], [score |-> 6, words |-> {"rate", "limits"}],
     [score |-> 5, words |-> {}]}
\* the answer: whether it holds an abstention phrase, and its words
DgAnswers == [abstains : BOOLEAN, words : {{}, {"rate"}}]
\* expected_content: None, or a text by its words ("" has none)
DgExpected == {NoResult} \cup [words : {{}, {"rate"}, {"api"}}]
DiagnoseInputs ==
    [query : SeqsUpTo(DgWords, DgMaxWords), chunks : SeqsUpTo(DgChunks, DgMaxChunks),
     answer : DgAnswers, expected_content : DgExpected]

DgInit == dg_pc = "call" /\ dg_in \in DiagnoseInputs /\ dg_out = NoResult

DiagnoseCall ==
    /\ dg_pc = "call"
    /\ dg_out' = diagnose_failure(dg_in.query, dg_in.chunks, dg_in.answer,
                                  dg_in.expected_content)
    /\ dg_pc' = "done"
    /\ UNCHANGED dg_in

DgIdle == dg_pc = "idle" /\ dg_in = NoResult /\ dg_out = NoResult

(***************************************************************************)
(* Rule-based query analysis on the words of a query                       *)
(* (src/reasoning/analyzer.py).  A query is the sequence of its words, in  *)
(* lower case; every pattern is a word or two words between \b, so it      *)
(* matches a word, or two words in a row.                                  *)
(***************************************************************************)
\* lines 23-41, the patterns of one word and those of two
COMPARATIVE_PATTERNS ==
    {"compare", "vs", "versus", "difference", "better", "worse", "similar", "unlike"}
PROCEDURAL_PATTERNS == {"process", "procedure", "method"}
PROCEDURAL_PAIRS == {<<"how", "to">>, <<"how", "do">>, <<"how", "can">>, <<"steps", "to">>}
ANALYTICAL_PATTERNS ==
    {"why", "cause", "reason", "explain", "analyz", "impact", "effect", "implication"}
AGGREGATIVE_PATTERNS == {"list", "all", "every", "enumerate", "summarize", "overview", "main"}

\* re.search of one of the patterns in the query
SearchAny(ws, singles, pairs) ==
    \/ \E n \in 1..Len(ws) : ws[n] \in singles
    \/ \E n \in 1..(Len(ws) - 1) : <<ws[n], ws[n + 1]>> \in pairs

\* _classify_query with the procedural patterns tried first
ClassifyProceduralFirst(ws) ==
    IF SearchAny(ws, PROCEDURAL_PATTERNS, PROCEDURAL_PAIRS) THEN <<"procedural", 8>>
    ELSE IF SearchAny(ws, COMPARATIVE_PATTERNS, {}) THEN <<"comparative", 8>>
    ELSE IF SearchAny(ws, ANALYTICAL_PATTERNS, {}) THEN <<"analytical", 8>>
    ELSE IF SearchAny(ws, AGGREGATIVE_PATTERNS, {}) THEN <<"aggregative", 8>>
    ELSE <<"factual", 6>>

\* _classify_query (lines 44-70): the type and the confidence in tenths
classify_query_words(ws) ==
    IF SearchAny(ws, COMPARATIVE_PATTERNS, {}) THEN <<"comparative", 8>>
    ELSE IF SearchAny(ws, PROCEDURAL_PATTERNS, PROCEDURAL_PAIRS) THEN <<"procedural", 8>>
    ELSE IF SearchAny(ws, ANALYTICAL_PATTERNS, {}) THEN <<"analytical", 8>>
    ELSE IF SearchAny(ws, AGGREGATIVE_PATTERNS, {}) THEN <<"aggregative", 8>>
    ELSE <<"factual", 6>>

\* line 87: (.+?)\s+(?:vs\.?|versus|and|compared to)\s+(.+) -- the places
\* where a separator stands with words before and after it, as <<first word
\* of the separator, last word of it>>
VsSeparators(ws) ==
    {<<n, n>> : n \in {m \in 2..(Len(ws) - 1) : ws[m] \in {"vs", "versus", "and"}}}
    \cup {<<n, n + 1>> : n \in {m \in 2..(Len(ws) - 2) :
                                    ws[m] = "compared" /\ ws[m + 1] = "to"}}
\* the lazy first group stops at the first of them
FirstSeparator(ws) ==
    CHOOSE sep \in VsSeparators(ws) : \A other \in VsSeparators(ws) : sep[1] <= other[1]
\* line 92: re.sub(r'^compare\s+', '', subject1)
StripCompare(ws) == IF Len(ws) >= 2 /\ ws[1] = "compare" THEN Tail(ws) ELSE ws

\* line 100: why\s+(?:does|is|do|are|did|was|were)?\s*(.+) -- the subject after
\* the first "why" that has a word after it; the auxiliary goes unless it is
\* the last word
AuxiliaryWords == {"does", "is", "do", "are", "did", "was", "were"}
WhyPlaces(ws) == {n \in 1..(Len(ws) - 1) : ws[n] = "why"}
WhySubject(ws) ==
    LET n == CHOOSE m \in WhyPlaces(ws) : \A other \in WhyPlaces(ws) : m <= other
        rest == SubSeq(ws, n + 1, Len(ws))
    IN  IF rest[1] \in AuxiliaryWords /\ Len(rest) >= 2 THEN Tail(rest) ELSE rest

\* _decompose_query (lines 73-113): each sub-query is the sequence of its words
decompose_query(ws, query_type) ==
    <<ws>> \o
    (IF query_type = "comparative" /\ VsSeparators(ws) # {}
     THEN LET sep == FirstSeparator(ws)
          IN  <<StripCompare(SubSeq(ws, 1, sep[1] - 1)), SubSeq(ws, sep[2] + 1, Len(ws))>>
     ELSE IF query_type = "analytical" /\ WhyPlaces(ws) # {}
     THEN <<<<"causes", "of">> \o WhySubject(ws), <<"factors", "affecting">> \o WhySubject(ws)>>
     ELSE <<>>)

\* _determine_strategy (lines 116-123)
determine_strategy(query_type, sub_queries) ==
    IF query_type \in {"comparative", "aggregative"} THEN "multi"
    ELSE IF query_type = "analytical" /\ Len(sub_queries) > 1 THEN "iterative"
    ELSE "single"

\* analyze_query(query, use_llm=False) (lines 126-157)
analyze_query_words(ws) ==
    LET classified == classify_query_words(ws)
        query_type == classified[1]
        sub_queries == decompose_query(ws, query_type)
    IN  [query_type |-> query_type,
         sub_queries |-> sub_queries,
         retrieval_strategy |-> determine_strategy(query_type, sub_queries),
         reasoning_required |-> query_type \in {"comparative", "analytical"},
         confidence |-> classified[2]]

\* the words a query of the model is made of
AnWords == {"compare", "vs", "and", "how", "to", "why", "is", "list", "postgres", "mysql"}

AnInit == an_pc = "call" /\ an_in \in SeqsUpTo(AnWords, AnMaxWords) /\ an_out = NoResult

AnalyzeCall ==
    /\ an_pc = "call"
    /\ an_out' = analyze_query_words(an_in)
    /\ an_pc' = "done"
    /\ UNCHANGED an_in

AnIdle == an_pc = "idle" /\ an_in = NoResult /\ an_out = NoResult

(***************************************************************************)
(* The score fields along the pipeline: keyword_search and                 *)
(* hybrid_score_chunks (src/retrieval/keyword_search.py), _merge_chunks    *)
(* (src/orchestrator.py), rerank_chunks (src/retrieval/reranker.py) and    *)
(* budget_chunks (src/context/shaper.py), run one after the other on the   *)
(* chunks of one query.                                                    *)
(***************************************************************************)
\* a chunk of the chunk store, as src/ingestion/api.py writes it: no score
StoredChunk(i) == [id |-> i, text |-> ShapeChunk(i).text]
\* a match of the semantic source, with its similarity as score
ScoredMatch(i) == ShapeChunk(i)
\* the BM25 score of a hit
Bm25Scores == {3}

\* keyword_search lines 183-187: chunk = chunks[idx].copy(), then bm25_score
\* and score are set
KeywordHit(stored, bm25) == [bm25_score |-> bm25, score |-> bm25] @@ stored

ScInit == sc_pc = "start" /\ sc_top_k \in 1..MaxTopK /\ sc_before = <<>> /\ sc_chunks = <<>>

\* keyword_search scores the stored chunks and returns the hits
ScKeywordSearch ==
    /\ sc_pc = "start"
    /\ \E ids \in IdLists(ShapeIds, ScMaxChunks), bm25 \in Bm25Scores :
          /\ sc_before' = [n \in 1..Len(ids) |-> StoredChunk(ids[n])]
          /\ sc_chunks' = [n \in 1..Len(ids) |-> KeywordHit(StoredChunk(ids[n]), bm25)]
    /\ sc_pc' = "keyword_search"
    /\ UNCHANGED sc_top_k

\* hybrid_search puts the hits together with the semantic matches
ScHybrid ==
    /\ sc_pc = "keyword_search"
    /\ \E ids \in IdLists(ShapeIds, ScMaxChunks), weights \in WeightPairs :
          LET sem == [n \in 1..Len(ids) |-> ScoredMatch(ids[n])]
          IN  /\ sc_before' = sem \o sc_chunks
              /\ sc_chunks' = hybrid_search(Ok(sem), Ok(sc_chunks), sc_top_k,
                                            weights[1], weights[2]).chunks
    /\ sc_pc' = "hybrid_search"
    /\ UNCHANGED sc_top_k

\* _merge_chunks puts them together with the matches of a second query
ScMerge ==
    /\ sc_pc = "hybrid_search"
    /\ \E ids \in IdLists(ShapeIds, ScMaxChunks) :
          LET other == [n \in 1..Len(ids) |-> ScoredMatch(ids[n])]
          IN  /\ sc_before' = sc_chunks \o other
              /\ sc_chunks' = merge_chunks(<<sc_chunks, other>>, sc_top_k)
    /\ sc_pc' = "merge_chunks"
    /\ UNCHANGED sc_top_k

\* rerank_chunks, with what the cross-encoder does
ScRerank ==
    /\ sc_pc = "merge_chunks"
    /\ \E model \in IF RerankCallsModel(sc_chunks)
                    THEN CrossEncoderOutcomes(Len(sc_chunks))
                    ELSE {NoResult} :
          sc_chunks' = rerank_chunks(sc_chunks, sc_top_k, model).chunks
    /\ sc_before' = sc_chunks
    /\ sc_pc' = "rerank_chunks"
    /\ UNCHANGED sc_top_k

\* budget_chunks
ScBudget ==
    /\ sc_pc = "rerank_chunks"
    /\ \E token_budget \in 1..ShMaxBudget, min_tokens \in 0..ShMaxFloor :
          sc_chunks' = budget_chunks(sc_chunks, token_budget, min_tokens)
    /\ sc_before' = sc_chunks
    /\ sc_pc' = "budget_chunks"
    /\ UNCHANGED sc_top_k

ScIdle == sc_pc = "idle" /\ sc_top_k = 0 /\ sc_before = <<>> /\ sc_chunks = <<>>

(***************************************************************************)
(* Specifications.                                                         *)
(***************************************************************************)
\* one run of orchestrate_query or orchestrate_advanced
Init == OrInit /\ RwIdle /\ HyIdle /\ RrIdle /\ IxIdle /\ ShIdle /\ TrIdle /\ FuIdle /\ CiIdle /\ ItIdle /\ DgIdle /\ AnIdle /\ ScIdle
OrRest == <<rwVars, hyVars, rrVars, ixVars, shVars, trVars, fuVars, ciVars, itVars, dgVars, anVars, scVars>>
Next ==
    \/ SimpleStart /\ UNCHANGED OrRest
    \/ SimpleRewrite /\ UNCHANGED OrRest
    \/ SimpleRetrieve /\ UNCHANGED OrRest
    \/ SimpleMerge /\ UNCHANGED OrRest
    \/ SimpleRerank /\ UNCHANGED OrRest
    \/ SimpleGenerate /\ UNCHANGED OrRest
    \/ AdvancedAnalysis /\ UNCHANGED OrRest
    \/ AdvancedRewrite /\ UNCHANGED OrRest
    \/ AdvancedRetrieve /\ UNCHANGED OrRest
    \/ AdvancedCollect /\ UNCHANGED OrRest
    \/ AdvancedRerank /\ UNCHANGED OrRest
    \/ AdvancedShape /\ UNCHANGED OrRest
    \/ AdvancedReason /\ UNCHANGED OrRest
    \/ AdvancedGenerate /\ UNCHANGED OrRest
Spec == Init /\ [][Next]_vars

\* rewrite_query on every input
RewriteInit == RwInit /\ HyIdle /\ RrIdle /\ IxIdle /\ OrIdle /\ ShIdle /\ TrIdle /\ FuIdle /\ CiIdle /\ ItIdle /\ DgIdle /\ AnIdle /\ ScIdle
RewriteNext == RwCall /\ UNCHANGED <<hyVars, rrVars, ixVars, orVars, shVars, trVars, fuVars, ciVars, itVars, dgVars, anVars, scVars>>
SpecRewrite == RewriteInit /\ [][RewriteNext]_vars

\* hybrid_search on every input
HybridInit == HyInit /\ RwIdle /\ RrIdle /\ IxIdle /\ OrIdle /\ ShIdle /\ TrIdle /\ FuIdle /\ CiIdle /\ ItIdle /\ DgIdle /\ AnIdle /\ ScIdle
HybridNext == HyCall /\ UNCHANGED <<rwVars, rrVars, ixVars, orVars, shVars, trVars, fuVars, ciVars, itVars, dgVars, anVars, scVars>>
SpecHybrid == HybridInit /\ [][HybridNext]_vars

\* rerank_chunks on every input
RerankInit == RrInit /\ RwIdle /\ HyIdle /\ IxIdle /\ OrIdle /\ ShIdle /\ TrIdle /\ FuIdle /\ CiIdle /\ ItIdle /\ DgIdle /\ AnIdle /\ ScIdle
RerankNext == RrCall /\ UNCHANGED <<rwVars, hyVars, ixVars, orVars, shVars, trVars, fuVars, ciVars, itVars, dgVars, anVars, scVars>>
SpecRerank == RerankInit /\ [][RerankNext]_vars

\* threads on the keyword index
IndexInit == IxInit /\ RwIdle /\ HyIdle /\ RrIdle /\ OrIdle /\ ShIdle /\ TrIdle /\ FuIdle /\ CiIdle /\ ItIdle /\ DgIdle /\ AnIdle /\ ScIdle
IxRest == <<rwVars, hyVars, rrVars, orVars, shVars, trVars, fuVars, ciVars, itVars, dgVars, anVars, scVars>>
IndexNext ==
    \/ \E t \in Threads, p \in Paths : KeywordSearchCall(t, p) /\ UNCHANGED IxRest
    \/ \E t \in Threads, p \in Paths : IngestReload(t, p) /\ UNCHANGED IxRest
    \/ \E t \in Threads : GetIndexCheck(t) /\ UNCHANGED IxRest
    \/ \E t \in Threads : GetIndexLoad(t) /\ UNCHANGED IxRest
    \/ \E t \in Threads : GetIndexSetPath(t) /\ UNCHANGED IxRest
    \/ \E t \in Threads : GetIndexBuild(t) /\ UNCHANGED IxRest
    \/ \E t \in Threads : GetIndexPublish(t) /\ UNCHANGED IxRest
    \/ \E t \in Threads : GetIndexReturn(t) /\ UNCHANGED IxRest
    \/ \E t \in Threads : KeywordSearchScore(t) /\ UNCHANGED IxRest
SpecIndex == IndexInit /\ [][IndexNext]_vars

\* the context shaper on every input
ShaperInit == ShInit /\ RwIdle /\ HyIdle /\ RrIdle /\ IxIdle /\ OrIdle /\ TrIdle /\ FuIdle /\ CiIdle /\ ItIdle /\ DgIdle /\ AnIdle /\ ScIdle
ShRest == <<rwVars, hyVars, rrVars, ixVars, orVars, trVars, fuVars, ciVars, itVars, dgVars, anVars, scVars>>
ShaperNext ==
    \/ ShapeCall /\ UNCHANGED ShRest
    \/ DedupCall /\ UNCHANGED ShRest
    \/ BudgetCall /\ UNCHANGED ShRest
    \/ CompressCall /\ UNCHANGED ShRest
SpecShaper == ShaperInit /\ [][ShaperNext]_vars

\* operations on one tracer, in any order
TracerSpecInit == TrInit /\ RwIdle /\ HyIdle /\ RrIdle /\ IxIdle /\ OrIdle /\ ShIdle /\ FuIdle /\ CiIdle /\ ItIdle /\ DgIdle /\ AnIdle /\ ScIdle
TrRest == <<rwVars, hyVars, rrVars, ixVars, orVars, shVars, fuVars, ciVars, itVars, dgVars, anVars, scVars>>
TracerNext ==
    \/ \E name \in StageNames : TrEnter(name) /\ UNCHANGED TrRest
    \/ \E exc_val \in MaybeMessages : TrExit(exc_val) /\ UNCHANGED TrRest
    \/ \E name \in StageNames, latency \in {0, 1}, error \in RecordedErrors :
          TrRecordStage(name, latency, error) /\ UNCHANGED TrRest
    \/ \E answer \in Answers : TrSetAnswer(answer) /\ UNCHANGED TrRest
    \/ \E error \in SetErrors : TrSetError(error) /\ UNCHANGED TrRest
    \/ TrGetResult /\ UNCHANGED TrRest
    \/ TrToDict /\ UNCHANGED TrRest
SpecTracer == TracerSpecInit /\ [][TracerNext]_vars

\* one fusion call
FusionInit == FuInit /\ RwIdle /\ HyIdle /\ RrIdle /\ IxIdle /\ OrIdle /\ ShIdle /\ TrIdle /\ CiIdle /\ ItIdle /\ DgIdle /\ AnIdle /\ ScIdle
FuRest == <<rwVars, hyVars, rrVars, ixVars, orVars, shVars, trVars, ciVars, itVars, dgVars, anVars, scVars>>
FusionNext ==
    \/ FuseCall /\ UNCHANGED FuRest
    \/ MergeCall /\ UNCHANGED FuRest
SpecFusion == FusionInit /\ [][FusionNext]_vars

\* one call of a citation extractor
CitationInit ==
    CiInit /\ RwIdle /\ HyIdle /\ RrIdle /\ IxIdle /\ OrIdle /\ ShIdle /\ TrIdle /\ FuIdle /\ ItIdle /\ DgIdle /\ AnIdle /\ ScIdle
CiRest == <<rwVars, hyVars, rrVars, ixVars, orVars, shVars, trVars, fuVars, itVars, dgVars, anVars, scVars>>
CitationNext ==
    \/ ExtractCitedCall /\ UNCHANGED CiRest
    \/ ExtractEvidenceCall /\ UNCHANGED CiRest
SpecCitation == CitationInit /\ [][CitationNext]_vars

\* one run of iterative_retrieve_and_reason
IterativeInit ==
    ItInit /\ RwIdle /\ HyIdle /\ RrIdle /\ IxIdle /\ OrIdle /\ ShIdle /\ TrIdle /\ FuIdle /\ CiIdle /\ DgIdle /\ AnIdle /\ ScIdle
ItRest == <<rwVars, hyVars, rrVars, ixVars, orVars, shVars, trVars, fuVars, ciVars, dgVars, anVars, scVars>>
IterativeNext ==
    \/ ItStart /\ UNCHANGED ItRest
    \/ ItCheck /\ UNCHANGED ItRest
    \/ ItRetrieve /\ UNCHANGED ItRest
    \/ ItReason /\ UNCHANGED ItRest
SpecIterative == IterativeInit /\ [][IterativeNext]_vars

\* one call of diagnose_failure
DgRest == <<rwVars, hyVars, rrVars, ixVars, orVars, shVars, trVars, fuVars, ciVars, itVars, anVars, scVars>>
DiagnosisInit ==
    DgInit /\ RwIdle /\ HyIdle /\ RrIdle /\ IxIdle /\ OrIdle /\ ShIdle /\ TrIdle /\ FuIdle /\ CiIdle
           /\ ItIdle /\ AnIdle /\ ScIdle
DiagnosisNext == DiagnoseCall /\ UNCHANGED DgRest
SpecDiagnosis == DiagnosisInit /\ [][DiagnosisNext]_vars

\* one call of the rule-based analyze_query
AnRest == <<rwVars, hyVars, rrVars, ixVars, orVars, shVars, trVars, fuVars, ciVars, itVars, dgVars, scVars>>
AnalyzerInit ==
    AnInit /\ RwIdle /\ HyIdle /\ RrIdle /\ IxIdle /\ OrIdle /\ ShIdle /\ TrIdle /\ FuIdle /\ CiIdle
           /\ ItIdle /\ DgIdle /\ ScIdle
AnalyzerNext == AnalyzeCall /\ UNCHANGED AnRest
SpecAnalyzer == AnalyzerInit /\ [][AnalyzerNext]_vars

\* the chunks of one query through the scoring stages
ScRest == <<rwVars, hyVars, rrVars, ixVars, orVars, shVars, trVars, fuVars, ciVars, itVars, dgVars, anVars>>
ScoresInit ==
    ScInit /\ RwIdle /\ HyIdle /\ RrIdle /\ IxIdle /\ OrIdle /\ ShIdle /\ TrIdle /\ FuIdle /\ CiIdle
           /\ ItIdle /\ DgIdle /\ AnIdle
ScoresNext ==
    \/ ScKeywordSearch /\ UNCHANGED ScRest
    \/ ScHybrid /\ UNCHANGED ScRest
    \/ ScMerge /\ UNCHANGED ScRest
    \/ ScRerank /\ UNCHANGED ScRest
    \/ ScBudget /\ UNCHANGED ScRest
SpecScores == ScoresInit /\ [][ScoresNext]_vars

(***************************************************************************)
(* Properties of the orchestrators, checked under Spec.                    *)
(***************************************************************************)
\* the exception left the function instead of a result
Raised(r) == "raised" \in DOMAIN r
\* the error a result carries: `error` as orchestrate_advanced sets it, or
\* llm_meta.error as orchestrate_query sets it
ErrorOf(r) ==
    IF "error" \in DOMAIN r THEN r.error
    ELSE IF "llm_meta" \in DOMAIN r /\ "error" \in DOMAIN r.llm_meta THEN r.llm_meta.error
    ELSE "None"
EmptyAnswer(r) == "answer" \in DOMAIN r /\ r.answer = ""
InvalidQueries == {EmptyQuery, NoneQuery, NumberQuery}
LaterStages == {"rerank", "shape", "generation", "reasoning"}

\* C1: every finished run of either orchestrator hands back a result with an
\* `answer` field; no exception reaches the caller.
C1_NoExceptionPropagates == pc = "done" => "answer" \in DOMAIN result

\* C2: orchestrate_query on "", None or another non-string ends with answer
\* "" and error invalid_query, and no stage has been called.
C2_SimpleInvalidQuery ==
    (mode = "simple" /\ query \in InvalidQueries /\ pc # "start")
        => /\ pc = "done"
           /\ EmptyAnswer(result)
           /\ ErrorOf(result) = "invalid_query"
           /\ calls = {}

C2_Witness ==
    /\ mode = "simple" /\ query = NoneQuery /\ pc = "done"
    /\ ErrorOf(result) = "invalid_query" /\ calls = {}

\* C3: orchestrate_advanced on "", None or another non-string ends at once
\* with an empty answer tagged invalid_query, and no stage has been called.
C3_AdvancedInvalidQuery ==
    (mode = "advanced" /\ query \in InvalidQueries /\ pc # "start")
        => /\ pc = "done"
           /\ EmptyAnswer(result)
           /\ ErrorOf(result) = "invalid_query"
           /\ calls = {}

\* every retrieval call of the run is over and none of them gave a chunk
RetrievedNothing ==
    /\ "retrieval" \in calls
    /\ \/ mode = "simple" /\ pc \in {"merge", "done"} /\ all_chunk_lists = <<>>
       \/ mode = "advanced" /\ pc \in {"collect", "done"} /\ all_chunk_lists = <<>>

\* C4, as the code has it: when no retrieval call of the run gave a chunk, no
\* later stage is called (no rerank, shaping, generation or reasoning) and
\* the run ends with an empty answer, tagged retrieval_failed or
\* no_retrieval_results by orchestrate_query and "No chunks retrieved" by
\* orchestrate_advanced.
C4_NoChunksEndsRun ==
    RetrievedNothing
        => /\ calls \cap LaterStages = {}
           /\ pc = "done" =>
                /\ EmptyAnswer(result)
                /\ ErrorOf(result) \in IF mode = "simple"
                                       THEN {"retrieval_failed", "no_retrieval_results"}
                                       ELSE {NoChunksRetrieved}

C4_Witness ==
    /\ mode = "advanced" /\ pc = "done" /\ RetrievedNothing
    /\ Len(queries_to_search) > 1 /\ "retrieval" \in failures
    /\ ErrorOf(result) = NoChunksRetrieved

\* C4 as stated: in both modes the run that retrieved nothing ends tagged
\* retrieval_failed or no_retrieval_results.
C4_AsStated ==
    (RetrievedNothing /\ pc = "done")
        => /\ EmptyAnswer(result)
           /\ ErrorOf(result) \in {"retrieval_failed", "no_retrieval_results"}

\* C5: in both modes, a run whose final generation call raised (the call of
\* the reasoning chain included) ends with an empty answer and an error
\* tagged llm_call_failed.
C5_GenerationFailureTagged ==
    (pc = "done" /\ failures \cap {"generation", "reasoning"} # {})
        => /\ EmptyAnswer(result)
           /\ ErrorOf(result) \in LLMCallFailedTags

\* C6: in both modes, a run in which the rewrite, rerank or shaping stage
\* failed and retrieval gave chunks still reaches generation (or the
\* reasoning chain), and does not end with the stage's failure as its error.
C6_StageFailureNeverEndsRun ==
    (pc = "done" /\ failures \cap {"rewrite", "rerank", "shape"} # {} /\ ~RetrievedNothing)
        => /\ calls \cap {"generation", "reasoning"} # {}
           /\ ~Raised(result)
           /\ ErrorOf(result) \notin {SentenceModelDown}

\* C12: every result an orchestrator returns, the early ones included,
\* carries its stage metadata: retrieval_meta and query_rewrite in simple
\* mode, a trace in advanced mode with tracing enabled.
C12_ResultsCarryMetadata ==
    (pc = "done" /\ "answer" \in DOMAIN result)
        => /\ mode = "simple" => {"retrieval_meta", "query_rewrite"} \subseteq DOMAIN result
           /\ (mode = "advanced" /\ opts.enable_tracing) => "trace" \in DOMAIN result

(***************************************************************************)
(* Properties of rewrite_query, checked under SpecRewrite.                 *)
(***************************************************************************)
\* C7: rewrite_query always returns a non-empty rewritten_queries list that
\* contains the original query.
C7_RewriteKeepsOriginal ==
    rw_pc = "done"
        => /\ rw_result.rewritten_queries # <<>>
           /\ InSeq(rw_result.original_query, rw_result.rewritten_queries)

(***************************************************************************)
(* Properties of hybrid_search, checked under SpecHybrid.                  *)
(***************************************************************************)
\* the number of chunks a source delivered: 0 when it threw
CountOf(outcome) == IF outcome.ok THEN Len(outcome.val) ELSE 0

\* C8: hybrid_search returns whatever the sources do; its strategy is hybrid
\* when both sources delivered chunks, semantic_only or keyword_only when
\* only that one did, none with no chunks when neither did; semantic_count
\* and keyword_count are the numbers of chunks each source delivered, 0 for
\* a source that threw.
C8_HybridLabels ==
    hy_pc = "done"
        => /\ hy_result.semantic_count = CountOf(hy_sem)
           /\ hy_result.keyword_count = CountOf(hy_kw)
           /\ hy_result.strategy = "hybrid" <=> (CountOf(hy_sem) > 0 /\ CountOf(hy_kw) > 0)
           /\ hy_result.strategy = "semantic_only" <=> (CountOf(hy_sem) > 0 /\ CountOf(hy_kw) = 0)
           /\ hy_result.strategy = "keyword_only" <=> (CountOf(hy_sem) = 0 /\ CountOf(hy_kw) > 0)
           /\ hy_result.strategy = "none" <=> (CountOf(hy_sem) = 0 /\ CountOf(hy_kw) = 0)
           /\ hy_result.strategy = "none" => hy_result.chunks = <<>>

\* the semantic source throws, the keyword source returns 3 chunks
C8_Witness ==
    /\ hy_pc = "done" /\ hy_sem = Raise /\ hy_kw.ok /\ Len(hy_kw.val) = 3
    /\ hy_result.strategy = "keyword_only"
    /\ hy_result.semantic_count = 0 /\ hy_result.keyword_count = 3

(***************************************************************************)
(* Properties of rerank_chunks, checked under SpecRerank.                  *)
(***************************************************************************)
\* C9: when the cross-encoder fails to load or predict raises, rerank_chunks
\* returns the first top_k input chunks, each as it was handed in and in the
\* input order, with reranked false and the failure named in model_used.
C9_RerankFallback ==
    (rr_pc = "done" /\ rr_model \in {LoadFailed, PredictFailed})
        => /\ Len(rr_result.chunks) = Min(rr_top_k, Len(rr_chunks))
           /\ \A n \in 1..Len(rr_result.chunks) : rr_result.chunks[n] = rr_chunks[n]
           /\ rr_result.reranked = FALSE
           /\ InSeq(rr_model.error, rr_result.model_used)

\* predict raises on three chunks with top_k 2
C9_Witness ==
    /\ rr_pc = "done" /\ rr_model = PredictFailed
    /\ Len(rr_chunks) = 3 /\ rr_top_k = 2
    /\ rr_result.chunks = SubSeq(rr_chunks, 1, 2)
    /\ rr_result.reranked = FALSE

(***************************************************************************)
(* Properties of the keyword index, checked under SpecIndex.               *)
(***************************************************************************)
\* C10: every search scores with a BM25 index and a chunk store of the same
\* corpus version.
C10_SearchSeesOneVersion ==
    \A t \in Threads : th[t].pc = "score" => th[t].bm25 = th[t].chunks

(***************************************************************************)
(* Properties of the context shaper, checked under SpecShaper.             *)
(***************************************************************************)
RECURSIVE IsSubsequenceOfIds(_, _)
\* the chunks of out are chunks of cs, by id and in the order of cs
IsSubsequenceOfIds(out, cs) ==
    IF out = <<>> THEN TRUE
    ELSE IF cs = <<>> THEN FALSE
    ELSE IF Head(out).id = Head(cs).id THEN IsSubsequenceOfIds(Tail(out), Tail(cs))
    ELSE IsSubsequenceOfIds(out, Tail(cs))

ShapeReturned == sh_pc = "done" /\ sh_op = "shape" /\ sh_out.ok

\* C11: whatever shape_context returns holds no more chunks than it was
\* given, and is made of input chunks (text possibly trimmed) or is one
\* replacement chunk.
C11_ShapeNeverGrows ==
    ShapeReturned
        => /\ Len(sh_out.val.chunks) <= Len(sh_chunks)
           /\ \/ IsSubsequenceOfIds(sh_out.val.chunks, sh_chunks)
              \/ /\ Len(sh_out.val.chunks) = 1
                 /\ sh_out.val.chunks[1].id = "compressed_context"

\* three chunks in, one deduplicated away, a text trimmed
C11_Witness ==
    /\ ShapeReturned /\ Len(sh_chunks) = 3
    /\ sh_out.val.chunks_removed = 1 /\ Len(sh_out.val.chunks) = 2
    /\ sh_args.enable_pruning /\ sh_args.enable_compression
    /\ sh_out.val.final_tokens < sh_out.val.original_tokens

DedupReturned == sh_pc = "done" /\ sh_op = "dedup"

\* C18: deduplicate_chunks applied to its own output, with the same threshold
\* and the same similarities, returns it unchanged and removes nothing.
C18_DedupIdempotent ==
    DedupReturned
        => /\ sh_out.again.chunks = sh_out.first.chunks
           /\ sh_out.again.removed = 0

\* the first pass removed a chunk and kept two
C18_Witness ==
    /\ DedupReturned /\ sh_out.first.removed = 1 /\ Len(sh_out.first.chunks) = 2
    /\ sh_out.again.removed = 0

BudgetReturned == sh_pc = "done" /\ sh_op = "budget"

RECURSIVE SumAllocated(_)
SumAllocated(cs) ==
    IF cs = <<>> THEN 0 ELSE Head(cs).budget_allocated + SumAllocated(Tail(cs))

\* no allocation above max(min_tokens_per_chunk, remaining_budget)
AllocationsCapped ==
    \A n \in 1..Len(sh_out.chunks) :
        sh_out.chunks[n].budget_allocated
            <= Max(sh_args.min_tokens_per_chunk, sh_out.chunks[n].remaining_before)

\* C19, as the code has it: no allocation of budget_chunks exceeds the
\* remaining budget at the time it is made, and the estimated tokens of the
\* returned texts sum to at most token_budget.
C19_BudgetRespected ==
    BudgetReturned
        => /\ AllocationsCapped
           /\ \A n \in 1..Len(sh_out.chunks) :
                 sh_out.chunks[n].budget_allocated <= sh_out.chunks[n].remaining_before
           /\ SumTokens(sh_out.chunks) <= Max(sh_args.token_budget, 0)

\* two chunks returned, the first with its text cut to its allocation
C19_Witness ==
    /\ BudgetReturned /\ Len(sh_out.chunks) >= 2
    /\ sh_chunks[1].id = "a" /\ sh_out.chunks[1].text.len < 40
    /\ SumTokens(sh_out.chunks) = sh_args.token_budget

\* C19 as stated: the budget_allocated values sum to at most token_budget
\* plus one min_tokens_per_chunk.
C19_AsStated ==
    BudgetReturned
        => /\ AllocationsCapped
           /\ SumAllocated(sh_out.chunks)
                 <= sh_args.token_budget + sh_args.min_tokens_per_chunk

(***************************************************************************)
(* Properties of the tracer (SpecTracer)                                   *)
(***************************************************************************)
\* C13: a record obtained from the tracer with get_result or to_dict is
\* frozen: whatever the tracer does afterwards, the record still shows the
\* stages it showed when it was handed out.  (Its success flag and error are
\* values copied into the record, which no tracer operation reaches.)
C13_RecordsFrozen ==
    \A i \in 1..Len(tr_records) : StagesShown(tr_records[i]) = tr_records[i].made

\* the span that has just been closed
SpanClosed == tr_last # NoResult /\ tr_last.op = "exit"
SpanRaised == SpanClosed /\ tr_last.exc_val # NoResult

\* C14: when a span opened with trace_stage is left, by return or by an
\* exception, the tracer holds a stage under the span's name whose end is not
\* earlier than its start; if the block raised, the stage and the tracer carry
\* the error text cut to 200 characters, the tracer is unsuccessful, and the
\* exception goes on to the caller.
C14_SpanAlwaysClosed ==
    SpanClosed =>
        /\ tr_last.name \in DOMAIN tr_tracer.stages
        /\ LET stage == tr_tracer.stages[tr_last.name] IN
              /\ stage.start_time = tr_last.start_time
              /\ stage.end_time >= stage.start_time
              /\ SpanRaised =>
                    /\ stage.error = Truncate200(tr_last.exc_val)
                    /\ stage.error.len <= ErrorLimit
                    /\ tr_tracer.error = Truncate200(tr_last.exc_val)
                    /\ tr_tracer.success = FALSE
                    /\ tr_last.propagated
              /\ ~SpanRaised => stage.error = NoResult /\ ~tr_last.propagated

\* a span left by an exception whose text is longer than 200 characters,
\* after the clock moved on
C14_Witness ==
    /\ SpanRaised
    /\ tr_last.exc_val.len > ErrorLimit
    /\ tr_tracer.stages[tr_last.name].end_time > tr_last.start_time
    /\ tr_tracer.stages[tr_last.name].error.len = ErrorLimit

(***************************************************************************)
(* Properties of fusion (SpecFusion)                                       *)
(***************************************************************************)
FuseReturned == fu_pc = "done" /\ fu_op = "fuse"
MergeReturned == fu_pc = "done" /\ fu_op = "merge"
HasId(cs, i) == \E n \in 1..Len(cs) : cs[n].id = i
\* the 0-based rank of id i in cs
RankOf(cs, i) == (CHOOSE n \in 1..Len(cs) : cs[n].id = i) - 1
\* cs without the chunks of id i
Without(cs, i) == SelectSeq(cs, LAMBDA c : c.id # i)
\* the hybrid_score of id i among the fused chunks cs
FusedScore(cs, i) == cs[CHOOSE n \in 1..Len(cs) : cs[n].id = i].hybrid_score
\* what hybrid_score_chunks gives id i when every chunk is returned
ScoreAlone(sem, kw, weights, i) ==
    FusedScore(hybrid_score_chunks(sem, kw, weights[1], weights[2], Len(sem) + Len(kw)), i)
InBothLists(i) == i # "" /\ HasId(fu_in.sem, i) /\ HasId(fu_in.kw, i)

\* C15: a chunk that stands in both lists gets a hybrid_score at least as
\* high as hybrid_score_chunks gives it when it is taken out of the list
\* where it ranks lower (out of either list when the ranks are equal); with
\* equal positive weights the score is strictly higher.
C15_ConsensusNeverLowers ==
    FuseReturned =>
        \A n \in 1..Len(fu_out) :
            LET i == fu_out[n].id
                rs == RankOf(fu_in.sem, i)
                rk == RankOf(fu_in.kw, i)
                onlySem == ScoreAlone(fu_in.sem, Without(fu_in.kw, i), fu_in.weights, i)
                onlyKw == ScoreAlone(Without(fu_in.sem, i), fu_in.kw, fu_in.weights, i)
            IN  InBothLists(i) =>
                    /\ rs <= rk => fu_out[n].hybrid_score >= onlySem
                    /\ rk <= rs => fu_out[n].hybrid_score >= onlyKw
                    /\ (fu_in.weights[1] = fu_in.weights[2] /\ fu_in.weights[1] > 0) =>
                          /\ fu_out[n].hybrid_score > onlySem
                          /\ fu_out[n].hybrid_score > onlyKw

\* fuse([x], [x]) with equal weights has returned
C15_Witness ==
    /\ FuseReturned
    /\ Len(fu_in.sem) = 1 /\ Len(fu_in.kw) = 1 /\ InBothLists(fu_in.sem[1].id)
    /\ fu_in.sem[1].id = fu_in.kw[1].id
    /\ fu_in.weights = <<5, 5>>
    /\ Len(fu_out) = 1

\* where id i first occurs among the lists, the lists laid end to end
RECURSIVE Flatten(_)
Flatten(lists) == IF lists = <<>> THEN <<>> ELSE Head(lists) \o Flatten(Tail(lists))
FirstOccurrence(lists, i) ==
    LET flat == Flatten(lists) IN CHOOSE n \in 1..Len(flat) :
        flat[n].id = i /\ \A m \in 1..(n - 1) : flat[m].id # i
TiesInInputOrder(out, lists, score(_)) ==
    \A m, n \in 1..Len(out) :
        (m < n /\ score(out[m]) = score(out[n])) =>
            FirstOccurrence(lists, out[m].id) < FirstOccurrence(lists, out[n].id)
HybridScoreOf(c) == c.hybrid_score
RrfScoreOf(c) == c.rrf_score
FuInputLists == IF fu_op = "fuse" THEN <<fu_in.sem, fu_in.kw>> ELSE fu_in.chunk_lists
HasTie(out, score(_)) == \E m, n \in 1..Len(out) : m # n /\ score(out[m]) = score(out[n])

\* C16: hybrid_score_chunks and _merge_chunks return what their inputs
\* determine (neither reads anything else), no id twice, and chunks of equal
\* combined score stand in the order of their first occurrence in the
\* inputs: first list before second list, lower rank first.
C16_TiesKeepInputOrder ==
    /\ FuseReturned =>
          /\ fu_out = hybrid_score_chunks(fu_in.sem, fu_in.kw, fu_in.weights[1],
                                          fu_in.weights[2], fu_in.top_k)
          /\ \A m, n \in 1..Len(fu_out) : m # n => fu_out[m].id # fu_out[n].id
          /\ TiesInInputOrder(fu_out, FuInputLists, HybridScoreOf)
    /\ MergeReturned =>
          /\ fu_out = merge_chunks(fu_in.chunk_lists, fu_in.top_k)
          /\ \A m, n \in 1..Len(fu_out) : m # n => fu_out[m].id # fu_out[n].id
          /\ TiesInInputOrder(fu_out, FuInputLists, RrfScoreOf)

\* a merge of two per-query lists that returned two chunks of equal score,
\* the second of them ranked first in the second list
C16_Witness ==
    /\ MergeReturned
    /\ Len(fu_in.chunk_lists) = 2
    /\ HasTie(fu_out, RrfScoreOf)
    /\ Len(fu_in.chunk_lists[2]) = 2 /\ Len(fu_out) >= 2
    /\ fu_in.chunk_lists[2][1].id = fu_out[2].id

\* weight / (60 + rank + 1) for a chunk standing at that rank, else nothing
RRFTerm(cs, i, weight) ==
    IF HasId(cs, i) THEN weight * (RRFUnit \div (RRF_K + RankOf(cs, i) + 1)) ELSE 0
FusedIds == {i \in FuIds \ {""} : HasId(fu_in.sem, i) \/ HasId(fu_in.kw, i)}

\* C20: every chunk hybrid_score_chunks returns has the score
\* semantic_weight/(60 + r_s + 1) + keyword_weight/(60 + r_k + 1) over the
\* lists it stands in; the result is in descending order of that score and
\* holds the top_k best ids, all of them when there are fewer.
C20_WeightedRRF ==
    FuseReturned =>
        /\ \A n \in 1..Len(fu_out) :
              /\ fu_out[n].id \in FusedIds
              /\ fu_out[n].hybrid_score =
                    RRFTerm(fu_in.sem, fu_out[n].id, fu_in.weights[1])
                    + RRFTerm(fu_in.kw, fu_out[n].id, fu_in.weights[2])
        /\ \A n \in 1..(Len(fu_out) - 1) : fu_out[n].hybrid_score >= fu_out[n + 1].hybrid_score
        /\ Len(fu_out) <= fu_in.top_k
        /\ Len(fu_out) = Min(fu_in.top_k, Cardinality(FusedIds))
        /\ \A i \in FusedIds :
              (\A n \in 1..Len(fu_out) : fu_out[n].id # i) =>
                  \A n \in 1..Len(fu_out) :
                      fu_out[n].hybrid_score >=
                          RRFTerm(fu_in.sem, i, fu_in.weights[1])
                          + RRFTerm(fu_in.kw, i, fu_in.weights[2])

\* a fusion that cut its result to top_k, with a chunk from both lists and a
\* chunk from the keyword list alone in it
C20_Witness ==
    /\ FuseReturned
    /\ Cardinality(FusedIds) > fu_in.top_k
    /\ Len(fu_out) = fu_in.top_k
    /\ \E n \in 1..Len(fu_out) : InBothLists(fu_out[n].id)
    /\ \E n \in 1..Len(fu_out) : ~HasId(fu_in.sem, fu_out[n].id)

(***************************************************************************)
(* Properties of citation extraction (SpecCitation)                        *)
(***************************************************************************)
CitationsReturned == ci_pc = "done"
\* where id i first stands in the text
FirstCited(cited, i) == CHOOSE n \in 1..Len(cited) : cited[n].id = i /\ \A m \in 1..(n - 1) : cited[m].id # i

\* C17: both extractors return every id cited in the text exactly once, in
\* the order in which the ids first appear in the text, whatever the mix of
\* [ID:x] and plain ID:x citations.
C17_CitationsInTextOrder ==
    CitationsReturned =>
        /\ {ci_out[n] : n \in 1..Len(ci_out)} = {ci_text.cited[n].id : n \in 1..Len(ci_text.cited)}
        /\ \A m, n \in 1..Len(ci_out) : m # n => ci_out[m] # ci_out[n]
        /\ \A m, n \in 1..Len(ci_out) :
              m < n => FirstCited(ci_text.cited, ci_out[m]) < FirstCited(ci_text.cited, ci_out[n])

(***************************************************************************)
(* Further properties of the context shaper (SpecShaper)                   *)
(***************************************************************************)
CompressReturned == sh_pc = "done" /\ sh_op = "compress"
ShapeSucceeded == ShapeReturned /\ sh_out.ok
IsCompressedContext(out, cs) ==
    /\ Len(out) = 1 /\ out[1].id = "compressed_context"
    /\ \A n \in 1..Len(cs) : out[1].score >= cs[n].score
    /\ \E n \in 1..Len(cs) : out[1].score = cs[n].score

\* C21: compress_with_llm returns its input unchanged when the generator is
\* unavailable, its call failed or the joined text is within the target, and
\* otherwise either the input again or one chunk "compressed_context" scored
\* with the maximum of the input scores; shape_context calls it only with
\* compression enabled and more than 1.2 x token_budget tokens after
\* budgeting, and returns the budgeted chunks otherwise.
C21_CompressionAllOrNothing ==
    /\ CompressReturned =>
          /\ (\/ ~sh_out.llm_available
              \/ ~sh_out.llm.ok
              \/ estimate_tokens(Combined(sh_chunks)) <= sh_args.target_tokens)
                => sh_out.chunks = sh_chunks
          /\ sh_out.chunks = sh_chunks \/ IsCompressedContext(sh_out.chunks, sh_chunks)
    /\ ShapeSucceeded =>
          /\ sh_out.val.compression_applied =>
                /\ sh_args.enable_compression
                /\ 10 * sh_out.val.budgeted_tokens > 12 * sh_args.token_budget
          /\ ~sh_out.val.compression_applied =>
                \A n \in 1..Len(sh_out.val.chunks) :
                    sh_out.val.chunks[n].id # "compressed_context"

\* several chunks, the best of them not the first, compressed into one
C21_Witness ==
    /\ CompressReturned
    /\ Len(sh_chunks) >= 2
    /\ sh_out.chunks # sh_chunks
    /\ sh_out.chunks[1].id = "compressed_context"
    /\ sh_out.chunks[1].score > sh_chunks[1].score

\* C28: with token_budget >= 0 the remaining budget of budget_chunks never
\* goes below zero and the estimated tokens of the returned texts, ellipsis
\* included, sum to no more than token_budget; so shape_context, given such
\* a budget, never reaches its compression branch.
C28_BudgetNeverOverdrawn ==
    /\ (BudgetReturned /\ sh_args.token_budget >= 0) =>
          /\ \A n \in 1..Len(sh_out.chunks) :
                /\ sh_out.chunks[n].remaining_before >= 0
                /\ sh_out.chunks[n].remaining_before
                      - estimate_tokens(sh_out.chunks[n].text) >= 0
          /\ SumTokens(sh_out.chunks) <= sh_args.token_budget
    /\ (ShapeSucceeded /\ sh_args.token_budget >= 0) =>
          /\ sh_out.val.budgeted_tokens <= sh_args.token_budget
          /\ ~sh_out.val.compression_applied

\* a text cut with an ellipsis that uses the remaining budget up
C28_Witness ==
    /\ BudgetReturned /\ sh_args.token_budget > 0
    /\ \E n \in 1..Len(sh_out.chunks) :
          /\ sh_out.chunks[n].text # sh_chunks[n].text
          /\ sh_out.chunks[n].remaining_before = estimate_tokens(sh_out.chunks[n].text)
          /\ sh_out.chunks[n].text.len > 4 * sh_out.chunks[n].budget_allocated

\* C30: given chunks and a token_budget > 0, whatever shape_context returns
\* holds at least one chunk, and the first of them has the id of the first
\* chunk deduplication kept, which is the first chunk given.
C30_ShapeKeepsFirstChunk ==
    (ShapeSucceeded /\ sh_chunks # <<>> /\ sh_args.token_budget > 0) =>
        /\ Len(sh_out.val.chunks) >= 1
        /\ sh_out.val.chunks[1].id = sh_out.val.first_kept
        /\ sh_out.val.first_kept = sh_chunks[1].id

\* a first chunk of score 0 in front of a better one, both kept
C30_Witness ==
    /\ ShapeSucceeded /\ sh_args.token_budget > 0
    /\ Len(sh_chunks) >= 2 /\ sh_chunks[1].score = 0 /\ sh_chunks[2].score > 0
    /\ sh_out.val.chunks[1].id = sh_chunks[1].id

(***************************************************************************)
(* Further properties of the orchestrators (Spec)                          *)
(***************************************************************************)
\* orchestrate_query returned the result of lines 391-412
SimpleSucceeded == pc = "done" /\ mode = "simple" /\ llm_resp # NoResult /\ llm_resp.ok
SourceIds == {result.sources[n].id : n \in 1..Len(result.sources)}
\* the ids the generated text cites that are ids of sources
CitedSourceIds == {llm_resp.val.cited[n].id : n \in 1..Len(llm_resp.val.cited)} \cap SourceIds

\* where id i stands in the list of cited ids line 380 extracts
CitedAt(i) ==
    LET cited_ids == extract_cited_ids_from_llm(llm_resp.val)
    IN  CHOOSE n \in 1..Len(cited_ids) : cited_ids[n] = i

IsCheck(e) == e \in CheckOutcomes
ChecksMade == Cardinality({n \in 1..Len(it_log) : IsCheck(it_log[n])})

\* C23: iterative_retrieve_and_reason makes at most max_iterations
\* sufficiency checks; once the generator answered SUFFICIENT, or a
\* follow-up retrieval added no chunk with a new id, it makes no further
\* check; and no chunk a follow-up retrieval added has an id that was
\* already among the collected chunks.
C23_StopsAskingForEvidence ==
    /\ ChecksMade <= it_in.max_iterations
    /\ \A m, n \in 1..Len(it_log) :
          (m < n /\ it_log[m] \in {"sufficient", "nothing_new"}) => ~IsCheck(it_log[n])
    /\ \A m, n \in 1..Len(it_all_chunks) :
          (m < n /\ n > Len(it_in.initial_chunks)) => it_all_chunks[m].id # it_all_chunks[n].id

(***************************************************************************)
(* Properties of failure diagnosis (SpecDiagnosis)                         *)
(***************************************************************************)
DiagnoseReturned == dg_pc = "done"
DgNoChunks == dg_in.chunks = <<>>
\* the average score of the chunks is below 0.4
DgLowRelevance ==
    LET total == DgSumScores(dg_in.chunks) IN total < 4 * Len(dg_in.chunks)
\* more than half of the words of the query stand in the chunks
DgTermsOverlap ==
    LET Q == {dg_in.query[n] : n \in 1..Len(dg_in.query)}
    IN  Q # {} /\ 2 * Cardinality({w \in Q : \E n \in 1..Len(dg_in.chunks) : w \in dg_in.chunks[n].words})
                     > Cardinality(Q)
\* expected content was given and less than 0.3 of its words are in the answer
DgExpectedMissing ==
    /\ dg_in.expected_content # NoResult
    /\ dg_in.expected_content.words # {}
    /\ 10 * Cardinality({w \in dg_in.expected_content.words : w \in dg_in.answer.words})
          < 3 * Cardinality(dg_in.expected_content.words)
DgExpectedInChunks ==
    \E w \in dg_in.expected_content.words : \E n \in 1..Len(dg_in.chunks) : w \in dg_in.chunks[n].words

\* C24: diagnose_failure always returns, and its root cause follows a fixed
\* priority: no chunks, then low relevance, then abstention (split by term
\* overlap), then missing expected content (split by its presence in the
\* chunks), then unknown; no result carries more than 3 alternative queries.
C24_DiagnosisDecisionTree ==
    DiagnoseReturned =>
        /\ dg_out.root_cause =
              (CASE DgNoChunks -> "retrieval_failure"
                 [] ~DgNoChunks /\ DgLowRelevance -> "low_relevance"
                 [] ~DgNoChunks /\ ~DgLowRelevance /\ dg_in.answer.abstains ->
                       IF DgTermsOverlap THEN "context_interpretation" ELSE "topic_mismatch"
                 [] ~DgNoChunks /\ ~DgLowRelevance /\ ~dg_in.answer.abstains
                    /\ DgExpectedMissing ->
                       IF DgExpectedInChunks THEN "generation_miss" ELSE "retrieval_miss"
                 [] OTHER -> "unknown")
        /\ Len(dg_out.alternative_queries) <= 3

\* an abstaining answer over chunks of low relevance, with two alternatives
C24_Witness ==
    /\ DiagnoseReturned
    /\ ~DgNoChunks /\ DgLowRelevance /\ dg_in.answer.abstains
    /\ dg_out.root_cause = "low_relevance"
    /\ Len(dg_out.alternative_queries) = 2

(***************************************************************************)
(* Properties of the rule-based query analysis (SpecAnalyzer)              *)
(***************************************************************************)
AnalyzeReturned == an_pc = "done"
HasComparative == SearchAny(an_in, COMPARATIVE_PATTERNS, {})
HasProcedural == SearchAny(an_in, PROCEDURAL_PATTERNS, PROCEDURAL_PAIRS)
HasAnalytical == SearchAny(an_in, ANALYTICAL_PATTERNS, {})
HasAggregative == SearchAny(an_in, AGGREGATIVE_PATTERNS, {})

\* C25: the rule-based analyze_query gives the type of the first pattern
\* group that matches, in the order comparative, procedural, analytical,
\* aggregative, and factual when none does; the confidence is 0.8 for a
\* match and 0.6 for the default; sub_queries begins with the original query;
\* reasoning_required is true exactly for comparative and analytical; and
\* "compare postgres vs mysql" gives comparative, the original with
\* "postgres" and "mysql", and true.
C25_OrderedClassification ==
    AnalyzeReturned =>
        /\ an_out.query_type =
              (CASE HasComparative -> "comparative"
                 [] ~HasComparative /\ HasProcedural -> "procedural"
                 [] ~HasComparative /\ ~HasProcedural /\ HasAnalytical -> "analytical"
                 [] ~HasComparative /\ ~HasProcedural /\ ~HasAnalytical /\ HasAggregative ->
                       "aggregative"
                 [] OTHER -> "factual")
        /\ an_out.confidence = (IF an_out.query_type = "factual" THEN 6 ELSE 8)
        /\ Len(an_out.sub_queries) >= 1 /\ an_out.sub_queries[1] = an_in
        /\ an_out.reasoning_required <=> an_out.query_type \in {"comparative", "analytical"}
        /\ an_in = <<"compare", "postgres", "vs", "mysql">> =>
              /\ an_out.query_type = "comparative"
              /\ an_out.sub_queries = <<an_in, <<"postgres">>, <<"mysql">>>>
              /\ an_out.reasoning_required

\* a query with a procedural and a comparative pattern is comparative
C25_Witness ==
    /\ AnalyzeReturned
    /\ an_in = <<"how", "to", "compare", "postgres">>
    /\ an_out.query_type = "comparative" /\ an_out.confidence = 8
    /\ an_out.reasoning_required

(***************************************************************************)
(* Properties of the score fields (SpecScores)                             *)
(***************************************************************************)
\* chunk c is chunk p after the stage, its score untouched: the same id, and
\* the score p had if it had one
KeepsScoreOf(c, p) ==
    /\ c.id = p.id
    /\ "score" \in DOMAIN p => ("score" \in DOMAIN c /\ c.score = p.score)
\* the field each stage writes its result to
OwnField ==
    [keyword_search |-> "bm25_score", hybrid_search |-> "hybrid_score",
     merge_chunks |-> "rrf_score", rerank_chunks |-> "rerank_score",
     budget_chunks |-> "budget_allocated"]
StageRan == sc_pc \in DOMAIN OwnField

TopKOfRun == IF mode = "simple" THEN EffectiveTopK(opts.top_k) ELSE opts.top_k
HasSources == pc = "done" /\ "sources" \in DOMAIN result

\* C29: the sources of every result orchestrate_query or
\* orchestrate_advanced returns are at most top_k, whichever path was taken
\* (none at all when top_k is below zero).
C29_SourcesWithinTopK == HasSources => Len(result.sources) <= Max(TopKOfRun, 0)

\* no two chunks of the list have the same id
UniqueIds(cs) == NoDup([n \in 1..Len(cs) |-> cs[n].id])

\* C27: in a run of orchestrate_query no list of one pass holds two chunks
\* with the same id: not the list hybrid_search (under any strategy label) or
\* the semantic search returned for a query, not the list _merge_chunks made
\* of them, not the list rerank_chunks returned, which is the one handed to
\* generation.
C27_UniqueIdsPerPass ==
    mode = "simple" =>
        /\ \A n \in 1..Len(all_chunk_lists) : UniqueIds(all_chunk_lists[n])
        /\ UniqueIds(chunks)

\* two queries both retrieved chunk b, and the merged list was reranked
C27_Witness ==
    /\ mode = "simple" /\ pc = "done" /\ "answer" \in DOMAIN result
    /\ Len(all_chunk_lists) = 2
    /\ \A n \in 1..2 : \E m \in 1..Len(all_chunk_lists[n]) : all_chunk_lists[n][m].id = "b"
    /\ Len(all_chunk_lists[1]) = 2
    /\ Len(chunks) = 2 /\ "rerank_score" \in DOMAIN chunks[1]

====
